---- MODULE Spec2Model ----
(***************************************************************************)
(* GitHub-Analytics: the caching + orchestration layer.                    *)
(*                                                                         *)
(* GitHubService (orchestrator) over GitHubCacheService (cache store and   *)
(* key builder), GitHubApiService (upstream client), GitHubValidators and  *)
(* GitHubTransformService.  Strings are sequences of one-character         *)
(* strings, so that trimming, prefix/suffix stripping, lower-casing and    *)
(* key concatenation are computed as the code computes them.               *)
(***************************************************************************)
EXTENDS Integers, Sequences, FiniteSets, TLC

(***************************************************************************)
(* Strings                                                                 *)
(***************************************************************************)
LowerSeq == <<"a","b","c","d","e","f","g","h","i","j","k","l","m",
              "n","o","p","q","r","s","t","u","v","w","x","y","z">>
UpperSeq == <<"A","B","C","D","E","F","G","H","I","J","K","L","M",
              "N","O","P","Q","R","S","T","U","V","W","X","Y","Z">>
DigitSeq == <<"0","1","2","3","4","5","6","7","8","9">>

Range(f) == { f[i] : i \in DOMAIN f }

Lower == Range(LowerSeq)
Upper == Range(UpperSeq)
Digits == Range(DigitSeq)
Alnum == Lower \cup Upper \cup Digits
Whitespace == {" "}

\* String.prototype.trim
RECURSIVE TrimLeft(_)
TrimLeft(s) ==
  IF s # <<>> /\ Head(s) \in Whitespace THEN TrimLeft(Tail(s)) ELSE s

RECURSIVE TrimRight(_)
TrimRight(s) ==
  IF s # <<>> /\ s[Len(s)] \in Whitespace
    THEN TrimRight(SubSeq(s, 1, Len(s) - 1))
    ELSE s

Trim(s) == TrimRight(TrimLeft(s))

\* String.prototype.toLowerCase
LowerChar(c) ==
  IF c \in Upper
    THEN LowerSeq[CHOOSE i \in DOMAIN UpperSeq : UpperSeq[i] = c]
    ELSE c

ToLowerCase(s) == [i \in DOMAIN s |-> LowerChar(s[i])]

\* Number -> decimal string (template-literal interpolation of a number)
RECURSIVE NatToStr(_)
NatToStr(n) ==
  IF n < 10 THEN <<DigitSeq[n + 1]>>
  ELSE NatToStr(n \div 10) \o <<DigitSeq[(n % 10) + 1]>>

\* s.endsWith(suffix)
EndsWith(s, suffix) ==
  /\ Len(s) >= Len(suffix)
  /\ SubSeq(s, Len(s) - Len(suffix) + 1, Len(s)) = suffix

(***************************************************************************)
(* GitHubValidators                                                        *)
(***************************************************************************)
MaxUsernameLength == 39
MaxRepositoryNameLength == 100

Ok(v) == [ok |-> TRUE, value |-> v]
ValidationError(ctx) ==
  [ok |-> FALSE, kind |-> "GitHubValidationError", status |-> 400, context |-> ctx]

\* /^[a-zA-Z0-9]([a-zA-Z0-9]|-(?=[a-zA-Z0-9])){0,38}$/
UsernameFormat(s) ==
  /\ Len(s) >= 1
  /\ Len(s) <= MaxUsernameLength
  /\ s[1] \in Alnum
  /\ \A i \in 2..Len(s) :
       \/ s[i] \in Alnum
       \/ s[i] = "-" /\ i < Len(s) /\ s[i + 1] \in Alnum

\* username.trim().replace(/^@/, '')
SanitizeUsername(username) ==
  LET t == Trim(username)
  IN  IF t # <<>> /\ Head(t) = "@" THEN Tail(t) ELSE t

\* a validation that trims and bounds the length but does not check the format
validateUsername_NoFormat(username) ==
  LET sanitized == SanitizeUsername(username)
  IN  IF username = <<>> THEN ValidationError("validateUsername")
      ELSE IF sanitized = <<>> THEN ValidationError("validateUsername")
      ELSE IF Len(sanitized) > MaxUsernameLength THEN ValidationError("validateUsername")
      ELSE Ok(sanitized)

validateUsername(username) ==
  LET sanitized == SanitizeUsername(username)
  IN  IF username = <<>> THEN ValidationError("validateUsername")
      ELSE IF sanitized = <<>> THEN ValidationError("validateUsername")
      ELSE IF Len(sanitized) > MaxUsernameLength THEN ValidationError("validateUsername")
      ELSE IF ~UsernameFormat(sanitized) THEN ValidationError("validateUsername")
      ELSE Ok(sanitized)

\* /^[a-zA-Z0-9._-]+$/
RepositoryNameFormat(s) ==
  /\ Len(s) >= 1
  /\ \A i \in 1..Len(s) : s[i] \in Alnum \cup {".", "_", "-"}

DotGit == <<".", "g", "i", "t">>

\* a sanitizer that trims and leaves a trailing .git in place
SanitizeRepositoryName_KeepsDotGit(repo) == Trim(repo)

\* repo.trim().replace(/\.git$/, '')
SanitizeRepositoryName(repo) ==
  LET t == Trim(repo)
  IN  IF EndsWith(t, DotGit) THEN SubSeq(t, 1, Len(t) - Len(DotGit)) ELSE t

validateRepositoryName(repo) ==
  LET sanitized == SanitizeRepositoryName(repo)
  IN  IF repo = <<>> THEN ValidationError("validateRepositoryName")
      ELSE IF sanitized = <<>> THEN ValidationError("validateRepositoryName")
      ELSE IF Len(sanitized) > MaxRepositoryNameLength
        THEN ValidationError("validateRepositoryName")
      ELSE IF ~RepositoryNameFormat(sanitized)
        THEN ValidationError("validateRepositoryName")
      ELSE Ok(sanitized)

validateOwner(owner) == validateUsername(owner)

(***************************************************************************)
(* Optional values.  An absent optional number (undefined) is Undefined;   *)
(* an absent or empty string is <<>> or "" (both falsy in the code).       *)
(***************************************************************************)
Undefined == -999

Min(a, b) == IF a <= b THEN a ELSE b
Max(a, b) == IF a >= b THEN a ELSE b

(***************************************************************************)
(* Base64 (Buffer.from(s).toString('base64')) over ASCII strings           *)
(***************************************************************************)
OtherAscii ==
  [c \in {" ", "+", "-", ".", "/", ":", "=", ">", "@", "_"} |->
     CASE c = " " -> 32 [] c = "+" -> 43 [] c = "-" -> 45 [] c = "." -> 46
       [] c = "/" -> 47 [] c = ":" -> 58 [] c = "=" -> 61 [] c = ">" -> 62
       [] c = "@" -> 64 [] c = "_" -> 95]

Ascii(c) ==
  IF c \in Lower THEN 96 + (CHOOSE i \in DOMAIN LowerSeq : LowerSeq[i] = c)
  ELSE IF c \in Upper THEN 64 + (CHOOSE i \in DOMAIN UpperSeq : UpperSeq[i] = c)
  ELSE IF c \in Digits THEN 47 + (CHOOSE i \in DOMAIN DigitSeq : DigitSeq[i] = c)
  ELSE OtherAscii[c]

Base64Seq == UpperSeq \o LowerSeq \o DigitSeq \o <<"+", "/">>

Sextet(n) == Base64Seq[n + 1]

RECURSIVE Base64Bytes(_)
Base64Bytes(b) ==
  IF Len(b) = 0 THEN <<>>
  ELSE IF Len(b) = 1 THEN
    <<Sextet(b[1] \div 4), Sextet((b[1] % 4) * 16), "=", "=">>
  ELSE IF Len(b) = 2 THEN
    <<Sextet(b[1] \div 4),
      Sextet((b[1] % 4) * 16 + b[2] \div 16),
      Sextet((b[2] % 16) * 4), "=">>
  ELSE
    <<Sextet(b[1] \div 4),
      Sextet((b[1] % 4) * 16 + b[2] \div 16),
      Sextet((b[2] % 16) * 4 + b[3] \div 64),
      Sextet(b[3] % 64)>> \o Base64Bytes(SubSeq(b, 4, Len(b)))

Base64(s) == Base64Bytes([i \in DOMAIN s |-> Ascii(s[i])])

(***************************************************************************)
(* GitHubCacheService: key builder                                         *)
(***************************************************************************)
KeyError(field) == [ok |-> FALSE, kind |-> "Error", status |-> 500, context |-> field]

\* a validateKey that rejects the empty string only
InvalidKeyPart_EmptyOnly(value) == value = <<>>

\* validateKey: !value || value.trim() === ''
InvalidKeyPart(value) == value = <<>> \/ Trim(value) = <<>>

UserStatsPrefix == <<"u","s","e","r","_","s","t","a","t","s",":">>
UserReposPrefix == <<"u","s","e","r","_","r","e","p","o","s",":">>
RepoPrefix == <<"r","e","p","o",":">>
ReadmePrefix == <<"r","e","a","d","m","e",":">>
SearchPrefix == <<"s","e","a","r","c","h",":">>
MaxSuffix == <<":","m","a","x",":">>
keyPrefix == <<"g","i","t","h","u","b",":">>

\* a key builder that leaves the limit out of the user-stats key
generateUserStatsKey_NoLimit(username, maxRepos) ==
  IF InvalidKeyPart(username) THEN KeyError("username")
  ELSE Ok(UserStatsPrefix \o username)

generateUserStatsKey(username, maxRepos) ==
  IF InvalidKeyPart(username) THEN KeyError("username")
  ELSE Ok(UserStatsPrefix \o username \o
          (IF maxRepos # Undefined /\ maxRepos > 0
             THEN MaxSuffix \o NatToStr(maxRepos) ELSE <<>>))

\* a key builder that gives the repository list of a user the key of the
\* user's stats
generateUserRepositoriesKey_AsUserStats(username) ==
  IF InvalidKeyPart(username) THEN KeyError("username")
  ELSE Ok(UserStatsPrefix \o username)

generateUserRepositoriesKey(username) ==
  IF InvalidKeyPart(username) THEN KeyError("username")
  ELSE Ok(UserReposPrefix \o username)

generateRepositoryKey(owner, repo) ==
  IF InvalidKeyPart(owner) THEN KeyError("owner")
  ELSE IF InvalidKeyPart(repo) THEN KeyError("repo")
  ELSE Ok(RepoPrefix \o owner \o <<":">> \o repo)

\* a key builder that gives the readme of a repository the key of its metadata
generateReadmeKey_SharesRepositoryKey(owner, repo) ==
  IF InvalidKeyPart(owner) THEN KeyError("owner")
  ELSE IF InvalidKeyPart(repo) THEN KeyError("repo")
  ELSE Ok(RepoPrefix \o owner \o <<":">> \o repo)

generateReadmeKey(owner, repo) ==
  IF InvalidKeyPart(owner) THEN KeyError("owner")
  ELSE IF InvalidKeyPart(repo) THEN KeyError("repo")
  ELSE Ok(ReadmePrefix \o owner \o <<":">> \o repo)

\* a key builder that keys a search on the query as typed
generateSearchKey_RawQuery(query, page) ==
  IF InvalidKeyPart(query) THEN KeyError("query")
  ELSE Ok(SearchPrefix \o Base64(query) \o <<":">> \o
          NatToStr(IF page = Undefined THEN 1 ELSE page))

generateSearchKey(query, page) ==
  IF InvalidKeyPart(query) THEN KeyError("query")
  ELSE Ok(SearchPrefix \o Base64(Trim(ToLowerCase(query))) \o <<":">> \o
          NatToStr(IF page = Undefined THEN 1 ELSE page))

buildKey(key) == keyPrefix \o key

\* the backing-store key used by get and set
ReadWriteKey(env, key) == IF env = "test" THEN key ELSE buildKey(key)

\* the backing-store key used by delete
DeleteKey(env, key) == buildKey(key)

(***************************************************************************)
(* JavaScript || on optional values                                        *)
(***************************************************************************)
Null == -998
NullStr == "<null>"

\* x || d for a number: undefined, null and 0 are falsy
OrNum(x, d) == IF x = Undefined \/ x = Null \/ x = 0 THEN d ELSE x

\* x || d for a string: undefined, null and '' are falsy
OrStr(x, d) == IF x = "" \/ x = NullStr THEN d ELSE x

\* x || d for a string held as a character sequence
OrSeq(x, d) == IF x = <<>> THEN d ELSE x

\* an optional object: None when null or undefined
None == <<>>
Some(x) == <<x>>

(***************************************************************************)
(* The upstream REST API: a fixed world of users, repositories and         *)
(* readmes.  Identifiers are character sequences; dates are positive       *)
(* integers (larger is later), 0 when the field is absent.                 *)
(***************************************************************************)
UserA == <<"a">>
UserC == <<"c">>
RepoR1 == <<"r","1">>
RepoR2 == <<"r","2">>
RepoR3 == <<"r","3">>

FullName(owner, name) == owner \o <<"/">> \o name

\* a URL string: whether new URL() accepts it, and the non-empty segments of
\* its path
Url(segments) == [valid |-> TRUE, path |-> segments]
NoUrl == [valid |-> FALSE, path |-> <<>>]

RawRepo(owner, name, stars, created, updated, pushed, lang) ==
  [name |-> name, owner |-> owner, full_name |-> FullName(owner, name),
   description |-> "", language |-> lang,
   stargazers_count |-> stars, forks_count |-> 1, open_issues_count |-> Undefined,
   private |-> FALSE, created_at |-> created, updated_at |-> updated,
   pushed_at |-> pushed, html_url |-> Url(<<owner, name>>)]

\* an account with one repository more than a listing page holds by
\* default; its most starred repository is the one updated longest ago
UserM == <<"m">>
ManyRepos == 50 + 1

\* an account whose listing holds a repository as upstream sends it, one
\* without full_name, and one without full_name and without owner object
UserP == <<"p">>

PartialRepos ==
  << RawRepo(UserP, RepoR1, 3, 1, 9, 0, ""),
     [RawRepo(UserP, RepoR2, 2, 1, 8, 0, "") EXCEPT !.full_name = <<>>],
     [RawRepo(UserP, RepoR3, 1, 1, 7, 0, "") EXCEPT !.full_name = <<>>, !.owner = <<>>] >>

\* listed by upstream in "updated" order (sort: 'updated')
UpstreamRepos ==
  (UserA :> << RawRepo(UserA, RepoR1, 5, 1, 9, 0, "TypeScript"),
               RawRepo(UserA, RepoR2, 50, 3, 7, 8, ""),
               RawRepo(UserA, RepoR3, 20, 2, 0, 0, "Go") >>) @@
  (UserM :> [i \in 1..ManyRepos |->
               RawRepo(UserM, <<"r">> \o NatToStr(i),
                       IF i = ManyRepos THEN 99 ELSE i % 7,
                       1, ManyRepos + 1 - i, 0, "")]) @@
  (UserP :> PartialRepos)

UpstreamUsers ==
  (UserA :> [login |-> UserA, name |-> "Alice", bio |-> "", location |-> "Berlin",
             company |-> "", blog |-> "", avatar_url |-> "avatar", html_url |-> "url",
             followers |-> 4, following |-> 0, public_repos |-> 3,
             public_gists |-> Undefined, created_at |-> 1, updated_at |-> 9]) @@
  (UserM :> [login |-> UserM, name |-> "", bio |-> "", location |-> "",
             company |-> "", blog |-> "", avatar_url |-> "avatar", html_url |-> "url",
             followers |-> 0, following |-> 0, public_repos |-> ManyRepos,
             public_gists |-> 0, created_at |-> 1, updated_at |-> 9])

UpstreamReadmes ==
  (<<UserA, RepoR1>> :> [name |-> "README.md", path |-> <<>>, content |-> "aGk=",
                         encoding |-> "", size |-> 2, html_url |-> <<>>,
                         download_url |-> <<"dl">>])

\* the latest commit of a repository: committer date 0 when the commit has none
UpstreamCommits ==
  (<<UserA, RepoR1>> :> <<[sha |-> "s1", message |-> "m", committer_date |-> 12,
                           author_date |-> 11, html_url |-> "c1"]>>) @@
  (<<UserA, RepoR2>> :> <<>>) @@
  [p \in { <<UserP, RepoR1>>, <<UserP, RepoR2>>, <<UserP, RepoR3>> } |->
     <<[sha |-> "s2", message |-> "m", committer_date |-> 15,
        author_date |-> 14, html_url |-> "c2"]>>]

\* an error as thrown by the HTTP client
HttpError(status, message, remaining) ==
  [status |-> status, message |-> message, remaining |-> remaining]

NotFound == HttpError(404, "Not Found", "")

Raw(data) == [ok |-> TRUE, data |-> data]
RawErr(e) == [ok |-> FALSE, error |-> e]

Slice(seq, perPage, page) ==
  SubSeq(seq, (page - 1) * perPage + 1, Min(page * perPage, Len(seq)))

\* stable sort, descending by K: the contract of Array.prototype.sort with
\* the comparator (a, b) => K(b) - K(a)
StableSortDesc(seq, keys) ==
  LET n == Len(seq)
      pos(i) == 1 + Cardinality({ j \in 1..n :
                      \/ keys[j] > keys[i]
                      \/ keys[j] = keys[i] /\ j < i })
  IN  [p \in 1..n |-> seq[CHOOSE i \in 1..n : pos(i) = p]]

StarsOf(repo) == OrNum(repo.stargazers_count, 0)
UpdatedOf(repo) == OrNum(repo.updated_at, repo.created_at)
CreatedOf(repo) == repo.created_at

WorldGetUser(username) ==
  IF username \in DOMAIN UpstreamUsers THEN Raw(UpstreamUsers[username])
  ELSE RawErr(NotFound)

WorldListForUser(username, perPage, page) ==
  IF username \in DOMAIN UpstreamRepos
    THEN Raw(Slice(UpstreamRepos[username], perPage, page))
    ELSE RawErr(NotFound)

AllRepos == UpstreamRepos[UserA]

WorldGetRepo(owner, repo) ==
  IF \E i \in DOMAIN AllRepos : AllRepos[i].full_name = FullName(owner, repo)
    THEN Raw(AllRepos[CHOOSE i \in DOMAIN AllRepos :
                        AllRepos[i].full_name = FullName(owner, repo)])
    ELSE RawErr(NotFound)

WorldGetReadme(owner, repo) ==
  IF <<owner, repo>> \in DOMAIN UpstreamReadmes
    THEN Raw(UpstreamReadmes[<<owner, repo>>])
    ELSE RawErr(NotFound)

WorldListCommits(owner, repo) ==
  IF <<owner, repo>> \in DOMAIN UpstreamCommits
    THEN Raw(UpstreamCommits[<<owner, repo>>])
    ELSE RawErr(NotFound)

\* search: every public repository matches; ordered by the sort key, paged
WorldSearch(q, sort, perPage, page) ==
  LET ordered == IF sort = "updated" THEN StableSortDesc(AllRepos, [i \in DOMAIN AllRepos |-> UpdatedOf(AllRepos[i])])
                 ELSE StableSortDesc(AllRepos, [i \in DOMAIN AllRepos |-> StarsOf(AllRepos[i])])
  IN  Raw([total_count |-> Len(AllRepos), items |-> Slice(ordered, perPage, page)])

\* failures the upstream may answer any call with, whatever the resource
TransientFaults ==
  { HttpError(403, "rate limit", "0"), HttpError(Undefined, "", "") }

\* every answer the upstream can give to a call whose normal answer is w
Answers(w) == {w} \cup { RawErr(f) : f \in TransientFaults }

(***************************************************************************)
(* GitHubApiService                                                        *)
(***************************************************************************)
ApiError(kind, status, message, context) ==
  [ok |-> FALSE, kind |-> kind, status |-> status, message |-> message,
   context |-> context]

\* a classification that knows no status: every failure is a GitHubApiError
handleApiError_Unclassified(error, context) ==
  ApiError("GitHubApiError", OrNum(error.status, 500),
           OrStr(error.message, "Unknown API error"), context)

\* the messages of the model in which message.includes('rate limit') finds
\* its words
RateLimitMessages ==
  { "rate limit", "API rate limit exceeded for user",
    "You have exceeded a secondary rate limit" }

MessageIncludesRateLimit(message) == message \in RateLimitMessages

\* a classification that does not look at the x-ratelimit-remaining header
handleApiError_NoHeaderCheck(error, context) ==
  LET status == error.status
      message == OrStr(error.message, "Unknown API error")
  IN  CASE status = 404 ->
             ApiError("GitHubNotFoundError", 404, "Resource not found not found", context)
        [] status = 403 ->
             IF MessageIncludesRateLimit(message) \/ message = "Rate Limited"
               THEN ApiError("GitHubRateLimitError", 429,
                             "GitHub API rate limit exceeded", context)
               ELSE ApiError("GitHubApiError", 403, "Access forbidden", context)
        [] status = 422 ->
             ApiError("GitHubApiError", 422, "Invalid request to GitHub API", context)
        [] status = 401 ->
             ApiError("GitHubApiError", 401, "Authentication required", context)
        [] OTHER ->
             ApiError("GitHubApiError", OrNum(status, 500), message, context)

handleApiError(error, context) ==
  LET status == error.status
      message == OrStr(error.message, "Unknown API error")
  IN  CASE status = 404 ->
             ApiError("GitHubNotFoundError", 404, "Resource not found not found", context)
        [] status = 403 ->
             IF \/ MessageIncludesRateLimit(message)
                \/ message = "Rate Limited"
                \/ error.remaining = "0"
               THEN ApiError("GitHubRateLimitError", 429,
                             "GitHub API rate limit exceeded", context)
               ELSE ApiError("GitHubApiError", 403, "Access forbidden", context)
        [] status = 422 ->
             ApiError("GitHubApiError", 422, "Invalid request to GitHub API", context)
        [] status = 401 ->
             ApiError("GitHubApiError", 401, "Authentication required", context)
        [] OTHER ->
             ApiError("GitHubApiError", OrNum(status, 500), message, context)

\* the shared try/catch of every method: data, or the classified error
ApiResult(answer, context) ==
  IF answer.ok THEN Ok(answer.data) ELSE handleApiError(answer.error, context)

GetUserContext(username) == <<"getUser for ">> \o username
GetUserRepositoriesContext(username) == <<"getUserRepositories for ">> \o username
GetRepositoryContext(owner, repo) == <<"getRepository for ">> \o owner \o <<"/">> \o repo
GetReadmeContext(owner, repo) ==
  <<"getRepositoryReadme for ">> \o owner \o <<"/">> \o repo
SearchContext(query) == <<"searchRepositories with query: ">> \o query
CommitsContext(owner, repo) ==
  <<"getRepositoryCommits for ">> \o owner \o <<"/">> \o repo

DefaultReposPerPage == 50
DefaultSearchPerPage == 30
UpstreamMaxPerPage == 100

\* the page size getUserRepositories asks upstream for
ListPerPage(perPage) ==
  Min(IF perPage = Undefined THEN DefaultReposPerPage ELSE perPage, UpstreamMaxPerPage)

\* the page size searchRepositories asks upstream for
SearchPerPage(perPage) ==
  Min(IF perPage = Undefined THEN DefaultSearchPerPage ELSE perPage, UpstreamMaxPerPage)

DefaultPage(page) == IF page = Undefined THEN 1 ELSE page
DefaultSort(sort) == IF sort = "" THEN "stars" ELSE sort

(***************************************************************************)
(* GitHubTransformService                                                  *)
(***************************************************************************)
\* a sort on the star count as it is, where a missing count is not 0
sortRepositoriesByStars_NoDefault(repos) ==
  StableSortDesc(repos, [i \in DOMAIN repos |-> repos[i].stargazers_count])

sortRepositoriesByStars(repos) == StableSortDesc(repos, [i \in DOMAIN repos |-> StarsOf(repos[i])])

sortRepositoriesByUpdated(repos) == StableSortDesc(repos, [i \in DOMAIN repos |-> UpdatedOf(repos[i])])

sortRepositoriesByCreated(repos) == StableSortDesc(repos, [i \in DOMAIN repos |-> CreatedOf(repos[i])])

\* items.slice(0, limit): a negative limit counts from the end
limitRepositories_NoMax(items, limit) ==
  SubSeq(items, 1, IF limit < 0 THEN Max(0, Len(items) + limit)
                   ELSE Min(limit, Len(items)))

limitRepositories(items, limit) == SubSeq(items, 1, Min(Max(0, limit), Len(items)))

\* a fallback that prefers updated_at to pushed_at
determineLastCommitDate_UpdatedFirst(repo, lastCommit) ==
  IF lastCommit # None /\ lastCommit[1].date # 0 THEN lastCommit[1].date
  ELSE OrNum(repo.updated_at, OrNum(repo.pushed_at, OrNum(repo.created_at, Null)))

\* lastCommit is None (null or undefined) or Some(LastCommit); a LastCommit's
\* date is 0 when empty
determineLastCommitDate(repo, lastCommit) ==
  IF lastCommit # None /\ lastCommit[1].date # 0 THEN lastCommit[1].date
  ELSE OrNum(repo.pushed_at, OrNum(repo.updated_at, OrNum(repo.created_at, Null)))

transformToRepositoryDtoWith(repo, lastCommit) ==
  [name |-> repo.name,
   owner |-> repo.owner,
   description |-> OrStr(repo.description, NullStr),
   language |-> OrStr(repo.language, NullStr),
   stars |-> OrNum(repo.stargazers_count, 0),
   forks |-> OrNum(repo.forks_count, 0),
   openIssues |-> OrNum(repo.open_issues_count, 0),
   isPrivate |-> repo.private,
   createdAt |-> repo.created_at,
   updatedAt |-> repo.updated_at,
   htmlUrl |-> repo.html_url,
   lastCommitDate |-> determineLastCommitDate(repo, lastCommit)]

transformToRepositoryDto(repo) == transformToRepositoryDtoWith(repo, None)

transformCommitToLastCommit(commitData) ==
  [sha |-> commitData.sha, message |-> commitData.message,
   date |-> OrNum(commitData.committer_date, OrNum(commitData.author_date, 0)),
   url |-> commitData.html_url]

transformToRepositoryDtoWithCommitData(repo, commitData) ==
  transformToRepositoryDtoWith(repo,
    IF commitData # None THEN Some(transformCommitToLastCommit(commitData[1])) ELSE None)

transformToUserSummaryDto(user, topRepositories) ==
  [username |-> user.login,
   name |-> OrStr(user.name, NullStr),
   bio |-> OrStr(user.bio, NullStr),
   location |-> OrStr(user.location, NullStr),
   company |-> OrStr(user.company, NullStr),
   blog |-> OrStr(user.blog, NullStr),
   avatarUrl |-> user.avatar_url,
   htmlUrl |-> user.html_url,
   followers |-> OrNum(user.followers, 0),
   following |-> OrNum(user.following, 0),
   publicRepos |-> OrNum(user.public_repos, 0),
   publicGists |-> OrNum(user.public_gists, 0),
   createdAt |-> user.created_at,
   updatedAt |-> user.updated_at,
   topRepositories |-> topRepositories]

transformToReadmeDto(data, owner, repo) ==
  [name |-> OrStr(data.name, "README.md"),
   path |-> OrSeq(data.path, <<"/">> \o owner \o <<"/">> \o repo \o <<"/README.md">>),
   content |-> OrStr(data.content, ""),
   encoding |-> OrStr(data.encoding, "base64"),
   size |-> OrNum(data.size, 0),
   htmlUrl |-> OrSeq(data.html_url, <<"https://github.com/">> \o owner \o <<"/">> \o repo
                                     \o <<"/blob/main/README.md">>),
   downloadUrl |-> OrSeq(data.download_url, <<"https://api.github.com/repos/">> \o owner
                                     \o <<"/">> \o repo \o <<"/readme">>)]

RepositoryDtos(repos) == [i \in DOMAIN repos |-> transformToRepositoryDto(repos[i])]

\* getRepositoryKey: repo.full_name || `${repo.owner?.login}/${repo.name}`
getRepositoryKey(repo) ==
  IF repo.full_name # <<>> THEN repo.full_name
  ELSE (IF repo.owner = <<>> THEN <<"undefined">> ELSE repo.owner) \o <<"/">> \o repo.name

\* s.split('/')
RECURSIVE SplitSlash(_)
SplitSlash(s) ==
  IF \E i \in DOMAIN s : s[i] = "/"
    THEN LET i == CHOOSE i \in DOMAIN s : s[i] = "/" /\ \A j \in 1..(i - 1) : s[j] # "/"
         IN  <<SubSeq(s, 1, i - 1)>> \o SplitSlash(SubSeq(s, i + 1, Len(s)))
    ELSE <<s>>

\* None, or Some([owner, name])
extractOwnerAndRepo(repo) ==
  LET parts == SplitSlash(repo.full_name)
  IN  IF repo.full_name # <<>> /\ Len(parts) >= 2 /\ parts[1] # <<>> /\ parts[2] # <<>>
        THEN Some([owner |-> parts[1], name |-> parts[2]])
      ELSE IF repo.owner # <<>> /\ repo.name # <<>>
        THEN Some([owner |-> repo.owner, name |-> repo.name])
      ELSE IF repo.html_url.valid /\ Len(repo.html_url.path) >= 2
        THEN Some([owner |-> repo.html_url.path[1], name |-> repo.html_url.path[2]])
      ELSE None

\* commitMap: `${owner}/${repo}` -> None or Some(commit)
transformRepositoriesToDtos(repositories, commitMap) ==
  [i \in DOMAIN repositories |->
     LET repoKey == getRepositoryKey(repositories[i])
         commitData == IF repoKey \in DOMAIN commitMap THEN commitMap[repoKey] ELSE None
     IN  transformToRepositoryDtoWithCommitData(repositories[i], commitData)]

(***************************************************************************)
(* Inputs of the orchestrator operations                                   *)
(***************************************************************************)
\* ?limit= as parsed by the controller (parseInt): an integer, or Undefined
\* when the parameter is absent or not a number
MaxLimit == 1
LimitInputs == {Undefined} \cup (-1..MaxLimit)

UsernameInputs == { UserA, <<"@", "a", " ">>, UserC, <<" ">> }

ReadUsernames == { UserA, UserC, <<>>, <<" ">>, <<"a", "-">>, <<"@", "@", "a">> }

FaultUsernames == { UserA, <<" ">> }

\* <<owner, repo>> pairs
RepoInputs ==
  { <<UserA, RepoR1>>, <<UserA, <<"r", "9">>>>, <<<<>>, RepoR1>>, <<<<"-", "a">>, RepoR1>>,
    <<UserA, <<>>>>, <<UserA, <<" ">>>>, <<UserA, <<"r", "/", "1">>>>, <<UserA, DotGit>> }

FaultRepos == { <<UserA, RepoR1>> }

ReadLimits == { Undefined, MaxLimit }

\* options of getUserRepositories: sortBy "" and limit Undefined when absent
ReposOptions ==
  { [sortBy |-> "", limit |-> Undefined, includeCommits |-> FALSE],
    [sortBy |-> "stars", limit |-> MaxLimit, includeCommits |-> FALSE],
    [sortBy |-> "updated", limit |-> Undefined, includeCommits |-> TRUE],
    [sortBy |-> "created", limit |-> 0, includeCommits |-> FALSE],
    [sortBy |-> "", limit |-> -1, includeCommits |-> TRUE] }

ReadReposOptions ==
  { [sortBy |-> "", limit |-> Undefined, includeCommits |-> FALSE],
    [sortBy |-> "stars", limit |-> MaxLimit, includeCommits |-> TRUE] }

QueryInputs == { <<"q">>, <<>> }

MaxPage == 1
SearchOptions ==
  { [page |-> pg, perPage |-> pp, sort |-> so] :
      pg \in 1..MaxPage, pp \in {Undefined, 2}, so \in {""} }

\* GitHubConfigService.config: a value of 0 stands for a setting configured
\* as 0 (parseInt accepts it)
DefaultConfig ==
  [maxRepositories |-> 12, cacheTimeout |-> 300000, randomRepoMaxPages |-> 33]

Configs ==
  { DefaultConfig,
    [maxRepositories |-> 0, cacheTimeout |-> 0, randomRepoMaxPages |-> 0] }

(***************************************************************************)
(* State                                                                   *)
(***************************************************************************)
VARIABLES
  nodeEnv,       \* process.env.NODE_ENV
  config,        \* GitHubConfigService.config
  storeFaulty,   \* whether the backing store (cacheManager) may throw
  store,         \* cacheManager: backing-store key -> [value, ttl, by]
  req            \* the requests: slot -> position, locals and result

vars == <<nodeEnv, config, storeFaulty, store, req>>

Slots == {1}

NoResult == [ok |-> FALSE, kind |-> "pending"]
Void == [ok |-> TRUE, value |-> "void"]

NewReq(op, args) ==
  [op |-> op, args |-> args, pc |-> "start", id |-> <<>>, key |-> <<>>,
   hit |-> FALSE, got |-> None, tmp |-> None, out |-> None, result |-> NoResult,
   calls |-> {}, upErr |-> None, gets |-> 0, sets |-> 0, dels |-> 0, storeErrs |-> 0]

IdleReq == [NewReq("none", <<>>) EXCEPT !.pc = "idle"]

Free(s) == req[s].pc \in {"idle", "done"}

\* the request returns or throws result
Finish(r, result) == [r EXCEPT !.pc = "done", !.result = result]

\* an upstream call of the request was answered a; the request throws the
\* classified error
Fail(r, a, error) == Finish([r EXCEPT !.upErr = Some(a.error)], error)

Throws == IF storeFaulty THEN BOOLEAN ELSE {FALSE}

(***************************************************************************)
(* GitHubCacheService: get / set / delete over the backing store           *)
(***************************************************************************)
DefaultTtl == 300000
SearchTtl == 300000

\* a lookup under the bare key, while writes go under the prefixed key
CacheGet_BareKey(st, key, thr) ==
  IF ~thr /\ key \in DOMAIN st THEN Some(st[key]) ELSE None

\* get: the stored entry, None on a miss or when the store throws
CacheGet(st, key, thr) ==
  IF ~thr /\ ReadWriteKey(nodeEnv, key) \in DOMAIN st
    THEN Some(st[ReadWriteKey(nodeEnv, key)])
    ELSE None

\* ttl || config.cacheTimeout || 300000
TtlMs(ttl) == OrNum(ttl, OrNum(config.cacheTimeout, DefaultTtl))

\* set: the store after the call; unchanged when the store throws
CacheSet(st, key, value, ttl, by, thr) ==
  IF thr THEN st
  ELSE (ReadWriteKey(nodeEnv, key) :> [value |-> value, ttl |-> TtlMs(ttl), by |-> by]) @@ st

\* delete: the store after the call; unchanged when the store throws
CacheDelete(st, key, thr) ==
  IF thr THEN st
  ELSE [k \in DOMAIN st \ {DeleteKey(nodeEnv, key)} |-> st[k]]

Bump(n, thr) == IF thr THEN n + 1 ELSE n

(***************************************************************************)
(* GitHubService.getUserStats                                              *)
(***************************************************************************)
DefaultMaxRepositories == 10

\* requestedLimit ?? (config.maxRepositories || 10)
EffectiveLimit(limit) ==
  IF limit # Undefined /\ limit > 0 THEN limit
  ELSE OrNum(config.maxRepositories, DefaultMaxRepositories)

\* the key getUserStats reads and writes
UserStatsKeyOf(username, maxReposCfg) == generateUserStatsKey(username, maxReposCfg)

\* sort by stars, limit, transform: the summary built on a cache miss
BuildUserStats(user, repos, maxRepos) ==
  transformToUserSummaryDto(user,
    RepositoryDtos(limitRepositories(sortRepositoriesByStars(repos), maxRepos)))

\* who wrote an entry and what it holds: bookkeeping of the model, not a part
\* of the stored value
Tag(r, kind) == [op |-> r.op, kind |-> kind, id |-> r.id]

getUserStats_Call(s, username, limit) ==
  /\ Free(s)
  /\ LET r == NewReq("getUserStats", [username |-> username, limit |-> limit])
         v == validateUsername(username)
         maxReposCfg == EffectiveLimit(limit)
         k == UserStatsKeyOf(v.value, maxReposCfg)
     IN  req' = [req EXCEPT ![s] =
           IF ~v.ok THEN Finish(r, v)
           ELSE IF ~k.ok THEN Finish(r, k)
           ELSE [r EXCEPT !.pc = "cacheGet", !.key = k.value,
                          !.id = [user |-> v.value, limit |-> maxReposCfg]]]
  /\ UNCHANGED <<nodeEnv, config, storeFaulty, store>>

getUserStats_CacheGet(s) ==
  /\ req[s].op = "getUserStats" /\ req[s].pc = "cacheGet"
  /\ \E thr \in Throws :
       LET r == req[s]
           cached == CacheGet(store, r.key, thr)
           r1 == [r EXCEPT !.gets = @ + 1, !.storeErrs = Bump(@, thr),
                           !.got = cached, !.hit = cached # None]
       IN  req' = [req EXCEPT ![s] =
             IF cached # None
               THEN Finish(r1, Ok([data |-> cached[1].value, cached |-> TRUE]))
               ELSE [r1 EXCEPT !.pc = "fetchUser"]]
  /\ UNCHANGED <<nodeEnv, config, storeFaulty, store>>

getUserStats_FetchUser(s) ==
  /\ req[s].op = "getUserStats" /\ req[s].pc = "fetchUser"
  /\ \E a \in Answers(WorldGetUser(req[s].id.user)) :
       LET r == [req[s] EXCEPT !.calls = @ \cup {"getUser"}]
           user == ApiResult(a, GetUserContext(r.id.user))
       IN  req' = [req EXCEPT ![s] =
             IF ~user.ok THEN Fail(r, a, user)
             ELSE [r EXCEPT !.pc = "fetchRepos", !.tmp = Some(user.value)]]
  /\ UNCHANGED <<nodeEnv, config, storeFaulty, store>>

getUserStats_FetchRepos(s) ==
  /\ req[s].op = "getUserStats" /\ req[s].pc = "fetchRepos"
  /\ \E a \in Answers(WorldListForUser(req[s].id.user, ListPerPage(Undefined),
                                       DefaultPage(Undefined))) :
       LET r == [req[s] EXCEPT !.calls = @ \cup {"getUserRepositories"}]
           repos == ApiResult(a, GetUserRepositoriesContext(r.id.user))
       IN  req' = [req EXCEPT ![s] =
             IF ~repos.ok THEN Fail(r, a, repos)
             ELSE [r EXCEPT !.pc = "cacheSet", !.tmp = None,
                            !.out = Some(BuildUserStats(r.tmp[1], repos.value,
                                                        r.id.limit))]]
  /\ UNCHANGED <<nodeEnv, config, storeFaulty, store>>

\* a write whose store error is not caught and fails the request
getUserStats_CacheSet_Uncaught(s) ==
  /\ req[s].op = "getUserStats" /\ req[s].pc = "cacheSet"
  /\ \E thr \in Throws :
       LET r == [req[s] EXCEPT !.sets = @ + 1, !.storeErrs = Bump(@, thr)]
       IN  /\ store' = CacheSet(store, r.key, r.out[1], Undefined, Tag(r, "user_stats"), thr)
           /\ req' = [req EXCEPT ![s] =
                IF thr THEN Finish(r, KeyError("store"))
                ELSE Finish(r, Ok([data |-> r.out[1], cached |-> FALSE]))]
  /\ UNCHANGED <<nodeEnv, config, storeFaulty>>

\* a write that reports the entry as cached when the store already held one
getUserStats_CacheSet_ReportsStoreState(s) ==
  /\ req[s].op = "getUserStats" /\ req[s].pc = "cacheSet"
  /\ \E thr \in Throws :
       LET r == req[s]
           present == ReadWriteKey(nodeEnv, r.key) \in DOMAIN store
       IN  /\ store' = CacheSet(store, r.key, r.out[1], Undefined, Tag(r, "user_stats"), thr)
           /\ req' = [req EXCEPT ![s] =
                Finish([r EXCEPT !.sets = @ + 1, !.storeErrs = Bump(@, thr)],
                       Ok([data |-> r.out[1], cached |-> present]))]
  /\ UNCHANGED <<nodeEnv, config, storeFaulty>>

getUserStats_CacheSet(s) ==
  /\ req[s].op = "getUserStats" /\ req[s].pc = "cacheSet"
  /\ \E thr \in Throws :
       LET r == req[s]
       IN  /\ store' = CacheSet(store, r.key, r.out[1], Undefined, Tag(r, "user_stats"), thr)
           /\ req' = [req EXCEPT ![s] =
                Finish([r EXCEPT !.sets = @ + 1, !.storeErrs = Bump(@, thr)],
                       Ok([data |-> r.out[1], cached |-> FALSE]))]
  /\ UNCHANGED <<nodeEnv, config, storeFaulty>>

(***************************************************************************)
(* GitHubService.getRepository                                             *)
(***************************************************************************)
\* a request that goes to upstream without looking into the cache
getRepository_Call_SkipsLookup(s, owner, repo) ==
  /\ Free(s)
  /\ LET r == NewReq("getRepository", [owner |-> owner, repo |-> repo])
         o == validateOwner(owner)
         n == validateRepositoryName(repo)
         k == generateRepositoryKey(o.value, n.value)
     IN  req' = [req EXCEPT ![s] =
           IF ~o.ok THEN Finish(r, o)
           ELSE IF ~n.ok THEN Finish(r, n)
           ELSE IF ~k.ok THEN Finish(r, k)
           ELSE [r EXCEPT !.pc = "fetch", !.key = k.value,
                          !.id = [owner |-> o.value, repo |-> n.value]]]
  /\ UNCHANGED <<nodeEnv, config, storeFaulty, store>>

getRepository_Call(s, owner, repo) ==
  /\ Free(s)
  /\ LET r == NewReq("getRepository", [owner |-> owner, repo |-> repo])
         o == validateOwner(owner)
         n == validateRepositoryName(repo)
         k == generateRepositoryKey(o.value, n.value)
     IN  req' = [req EXCEPT ![s] =
           IF ~o.ok THEN Finish(r, o)
           ELSE IF ~n.ok THEN Finish(r, n)
           ELSE IF ~k.ok THEN Finish(r, k)
           ELSE [r EXCEPT !.pc = "cacheGet", !.key = k.value,
                          !.id = [owner |-> o.value, repo |-> n.value]]]
  /\ UNCHANGED <<nodeEnv, config, storeFaulty, store>>

getRepository_CacheGet(s) ==
  /\ req[s].op = "getRepository" /\ req[s].pc = "cacheGet"
  /\ \E thr \in Throws :
       LET r == req[s]
           cached == CacheGet(store, r.key, thr)
           r1 == [r EXCEPT !.gets = @ + 1, !.storeErrs = Bump(@, thr),
                           !.got = cached, !.hit = cached # None]
       IN  req' = [req EXCEPT ![s] =
             IF cached # None
               THEN Finish(r1, Ok([data |-> cached[1].value]))
               ELSE [r1 EXCEPT !.pc = "fetch"]]
  /\ UNCHANGED <<nodeEnv, config, storeFaulty, store>>

getRepository_Fetch(s) ==
  /\ req[s].op = "getRepository" /\ req[s].pc = "fetch"
  /\ \E a \in Answers(WorldGetRepo(req[s].id.owner, req[s].id.repo)) :
       LET r == [req[s] EXCEPT !.calls = @ \cup {"getRepository"}]
           repository == ApiResult(a, GetRepositoryContext(r.id.owner, r.id.repo))
       IN  req' = [req EXCEPT ![s] =
             IF ~repository.ok THEN Fail(r, a, repository)
             ELSE [r EXCEPT !.pc = "cacheSet",
                            !.out = Some(transformToRepositoryDto(repository.value))]]
  /\ UNCHANGED <<nodeEnv, config, storeFaulty, store>>

getRepository_CacheSet(s) ==
  /\ req[s].op = "getRepository" /\ req[s].pc = "cacheSet"
  /\ \E thr \in Throws :
       LET r == req[s]
       IN  /\ store' = CacheSet(store, r.key, r.out[1], Undefined, Tag(r, "repo"), thr)
           /\ req' = [req EXCEPT ![s] =
                Finish([r EXCEPT !.sets = @ + 1, !.storeErrs = Bump(@, thr)],
                       Ok([data |-> r.out[1]]))]
  /\ UNCHANGED <<nodeEnv, config, storeFaulty>>

(***************************************************************************)
(* GitHubService.getRepositoryReadme                                       *)
(***************************************************************************)
getRepositoryReadme_Call(s, owner, repo) ==
  /\ Free(s)
  /\ LET r == NewReq("getRepositoryReadme", [owner |-> owner, repo |-> repo])
         o == validateOwner(owner)
         n == validateRepositoryName(repo)
         k == generateReadmeKey(o.value, n.value)
     IN  req' = [req EXCEPT ![s] =
           IF ~o.ok THEN Finish(r, o)
           ELSE IF ~n.ok THEN Finish(r, n)
           ELSE IF ~k.ok THEN Finish(r, k)
           ELSE [r EXCEPT !.pc = "cacheGet", !.key = k.value,
                          !.id = [owner |-> o.value, repo |-> n.value]]]
  /\ UNCHANGED <<nodeEnv, config, storeFaulty, store>>

\* a lookup that fetches from the upstream even when it found an entry
getRepositoryReadme_CacheGet_Refetches(s) ==
  /\ req[s].op = "getRepositoryReadme" /\ req[s].pc = "cacheGet"
  /\ \E thr \in Throws :
       LET r == req[s]
           cached == CacheGet(store, r.key, thr)
       IN  req' = [req EXCEPT ![s] =
             [r EXCEPT !.gets = @ + 1, !.storeErrs = Bump(@, thr),
                       !.got = cached, !.hit = cached # None, !.pc = "fetch"]]
  /\ UNCHANGED <<nodeEnv, config, storeFaulty, store>>

getRepositoryReadme_CacheGet(s) ==
  /\ req[s].op = "getRepositoryReadme" /\ req[s].pc = "cacheGet"
  /\ \E thr \in Throws :
       LET r == req[s]
           cached == CacheGet(store, r.key, thr)
           r1 == [r EXCEPT !.gets = @ + 1, !.storeErrs = Bump(@, thr),
                           !.got = cached, !.hit = cached # None]
       IN  req' = [req EXCEPT ![s] =
             IF cached # None
               THEN Finish(r1, Ok([data |-> cached[1].value, cached |-> TRUE]))
               ELSE [r1 EXCEPT !.pc = "fetch"]]
  /\ UNCHANGED <<nodeEnv, config, storeFaulty, store>>

getRepositoryReadme_Fetch(s) ==
  /\ req[s].op = "getRepositoryReadme" /\ req[s].pc = "fetch"
  /\ \E a \in Answers(WorldGetReadme(req[s].id.owner, req[s].id.repo)) :
       LET r == [req[s] EXCEPT !.calls = @ \cup {"getRepositoryReadme"}]
           data == ApiResult(a, GetReadmeContext(r.id.owner, r.id.repo))
       IN  req' = [req EXCEPT ![s] =
             IF ~data.ok THEN Fail(r, a, data)
             ELSE [r EXCEPT !.pc = "cacheSet",
                            !.out = Some(transformToReadmeDto(data.value, r.id.owner,
                                                              r.id.repo))]]
  /\ UNCHANGED <<nodeEnv, config, storeFaulty, store>>

getRepositoryReadme_CacheSet(s) ==
  /\ req[s].op = "getRepositoryReadme" /\ req[s].pc = "cacheSet"
  /\ \E thr \in Throws :
       LET r == req[s]
       IN  /\ store' = CacheSet(store, r.key, r.out[1], Undefined, Tag(r, "readme"), thr)
           /\ req' = [req EXCEPT ![s] =
                Finish([r EXCEPT !.sets = @ + 1, !.storeErrs = Bump(@, thr)],
                       Ok([data |-> r.out[1], cached |-> FALSE]))]
  /\ UNCHANGED <<nodeEnv, config, storeFaulty>>

(***************************************************************************)
(* GitHubService.getUserRepositories                                       *)
(***************************************************************************)
\* the switch on options.sortBy, then if (options.limit) limitRepositories
SortAndLimit(repos, options) ==
  LET sortedRepos ==
        CASE options.sortBy = "stars" -> sortRepositoriesByStars(repos)
          [] options.sortBy = "updated" -> sortRepositoriesByUpdated(repos)
          [] options.sortBy = "created" -> sortRepositoriesByCreated(repos)
          [] OTHER -> repos
  IN  IF options.limit # Undefined /\ options.limit # 0
        THEN limitRepositories(sortedRepos, options.limit)
        ELSE sortedRepos

\* the identifiers handed to batchGetLatestCommits
RepoIdentifiers(sortedRepos) ==
  { extractOwnerAndRepo(sortedRepos[i])[1] :
      i \in { j \in DOMAIN sortedRepos : extractOwnerAndRepo(sortedRepos[j]) # None } }

\* getLatestCommit: commits[0], or null when the list is empty or the call failed
LatestCommit(answer) ==
  IF answer.ok /\ Len(answer.data) > 0 THEN Some(answer.data[1]) ELSE None

\* a listing that answers the raw list, whatever the options ask for
ListedRepositories_IgnoresOptions(r, repos) ==
  IF r.args.options.includeCommits
    THEN [r EXCEPT !.pc = "commits", !.tmp = Some(repos)]
    ELSE Finish(r, Ok([data |-> RepositoryDtos(repos)]))

\* after the raw list is known: return the DTOs, or go and fetch the commits
ListedRepositories(r, repos) ==
  LET sortedRepos == SortAndLimit(repos, r.args.options)
  IN  IF r.args.options.includeCommits
        THEN [r EXCEPT !.pc = "commits", !.tmp = Some(sortedRepos)]
        ELSE Finish(r, Ok([data |-> RepositoryDtos(sortedRepos)]))

getUserRepositories_Call(s, username, options) ==
  /\ Free(s)
  /\ LET r == NewReq("getUserRepositories", [username |-> username, options |-> options])
         v == validateUsername(username)
         k == generateUserRepositoriesKey(v.value)
     IN  req' = [req EXCEPT ![s] =
           IF ~v.ok THEN Finish(r, v)
           ELSE IF ~k.ok THEN Finish(r, k)
           ELSE [r EXCEPT !.pc = "cacheGet", !.key = k.value, !.id = [user |-> v.value]]]
  /\ UNCHANGED <<nodeEnv, config, storeFaulty, store>>

getUserRepositories_CacheGet(s) ==
  /\ req[s].op = "getUserRepositories" /\ req[s].pc = "cacheGet"
  /\ \E thr \in Throws :
       LET r == req[s]
           cached == CacheGet(store, r.key, thr)
           r1 == [r EXCEPT !.gets = @ + 1, !.storeErrs = Bump(@, thr),
                           !.got = cached, !.hit = cached # None]
       IN  req' = [req EXCEPT ![s] =
             IF cached # None THEN ListedRepositories(r1, cached[1].value)
             ELSE [r1 EXCEPT !.pc = "fetch"]]
  /\ UNCHANGED <<nodeEnv, config, storeFaulty, store>>

getUserRepositories_Fetch(s) ==
  /\ req[s].op = "getUserRepositories" /\ req[s].pc = "fetch"
  /\ \E a \in Answers(WorldListForUser(req[s].id.user, ListPerPage(Undefined),
                                       DefaultPage(Undefined))) :
       LET r == [req[s] EXCEPT !.calls = @ \cup {"getUserRepositories"}]
           repos == ApiResult(a, GetUserRepositoriesContext(r.id.user))
       IN  req' = [req EXCEPT ![s] =
             IF ~repos.ok THEN Fail(r, a, repos)
             ELSE [r EXCEPT !.pc = "cacheSet", !.out = Some(repos.value)]]
  /\ UNCHANGED <<nodeEnv, config, storeFaulty, store>>

getUserRepositories_CacheSet(s) ==
  /\ req[s].op = "getUserRepositories" /\ req[s].pc = "cacheSet"
  /\ \E thr \in Throws :
       LET r == req[s]
       IN  /\ store' = CacheSet(store, r.key, r.out[1], Undefined, Tag(r, "user_repos"), thr)
           /\ req' = [req EXCEPT ![s] =
                ListedRepositories([r EXCEPT !.sets = @ + 1, !.storeErrs = Bump(@, thr)],
                                   r.out[1])]
  /\ UNCHANGED <<nodeEnv, config, storeFaulty>>

\* batchGetLatestCommits and transformRepositoriesToDtos
getUserRepositories_Commits(s) ==
  /\ req[s].op = "getUserRepositories" /\ req[s].pc = "commits"
  /\ LET r == req[s]
         sortedRepos == r.tmp[1]
         ids == RepoIdentifiers(sortedRepos)
     IN  \E answer \in [ids -> Answers(Raw(<<>>)) \cup Answers(RawErr(NotFound))
                                \cup { WorldListCommits(i.owner, i.name) : i \in ids }] :
           /\ \A i \in ids : answer[i] \in Answers(WorldListCommits(i.owner, i.name))
           /\ LET commitMap == [k \in { FullName(i.owner, i.name) : i \in ids } |->
                     LatestCommit(answer[CHOOSE i \in ids : FullName(i.owner, i.name) = k])]
              IN  req' = [req EXCEPT ![s] =
                    Finish([r EXCEPT !.tmp = Some(commitMap),
                                     !.calls = @ \cup (IF ids = {} THEN {}
                                                       ELSE {"getRepositoryCommits"})],
                           Ok([data |-> transformRepositoriesToDtos(sortedRepos, commitMap)]))]
  /\ UNCHANGED <<nodeEnv, config, storeFaulty, store>>

(***************************************************************************)
(* GitHubService.searchRepositories                                        *)
(***************************************************************************)
MaxSearchResults == 1000

SearchResult(searchResponse, page, perPage) ==
  [repositories |-> RepositoryDtos(searchResponse.items),
   totalCount |-> searchResponse.total_count,
   currentPage |-> page,
   hasMore |-> page * perPage < Min(searchResponse.total_count, MaxSearchResults)]

searchRepositories_Call(s, query, options) ==
  /\ Free(s)
  /\ LET r == NewReq("searchRepositories", [query |-> query, options |-> options])
         page == DefaultPage(options.page)
         k == generateSearchKey(query, page)
     IN  req' = [req EXCEPT ![s] =
           IF ~k.ok THEN Finish(r, k)
           ELSE [r EXCEPT !.pc = "cacheGet", !.key = k.value,
                          !.id = [query |-> query, page |-> page,
                                  perPage |-> IF options.perPage = Undefined
                                                THEN DefaultSearchPerPage
                                                ELSE options.perPage,
                                  sort |-> DefaultSort(options.sort)]]]
  /\ UNCHANGED <<nodeEnv, config, storeFaulty, store>>

searchRepositories_CacheGet(s) ==
  /\ req[s].op = "searchRepositories" /\ req[s].pc = "cacheGet"
  /\ \E thr \in Throws :
       LET r == req[s]
           cached == CacheGet(store, r.key, thr)
           r1 == [r EXCEPT !.gets = @ + 1, !.storeErrs = Bump(@, thr),
                           !.got = cached, !.hit = cached # None]
       IN  req' = [req EXCEPT ![s] =
             IF cached # None THEN Finish(r1, Ok([data |-> cached[1].value]))
             ELSE [r1 EXCEPT !.pc = "fetch"]]
  /\ UNCHANGED <<nodeEnv, config, storeFaulty, store>>

searchRepositories_Fetch(s) ==
  /\ req[s].op = "searchRepositories" /\ req[s].pc = "fetch"
  /\ \E a \in Answers(WorldSearch(req[s].id.query, req[s].id.sort,
                                  SearchPerPage(req[s].id.perPage), req[s].id.page)) :
       LET r == [req[s] EXCEPT !.calls = @ \cup {"searchRepositories"}]
           searchResponse == ApiResult(a, SearchContext(r.id.query))
       IN  req' = [req EXCEPT ![s] =
             IF ~searchResponse.ok THEN Fail(r, a, searchResponse)
             ELSE [r EXCEPT !.pc = "cacheSet",
                            !.out = Some(SearchResult(searchResponse.value, r.id.page,
                                                      r.id.perPage))]]
  /\ UNCHANGED <<nodeEnv, config, storeFaulty, store>>

searchRepositories_CacheSet(s) ==
  /\ req[s].op = "searchRepositories" /\ req[s].pc = "cacheSet"
  /\ \E thr \in Throws :
       LET r == req[s]
       IN  /\ store' = CacheSet(store, r.key, r.out[1], SearchTtl, Tag(r, "search"), thr)
           /\ req' = [req EXCEPT ![s] =
                Finish([r EXCEPT !.sets = @ + 1, !.storeErrs = Bump(@, thr)],
                       Ok([data |-> r.out[1]]))]
  /\ UNCHANGED <<nodeEnv, config, storeFaulty>>

(***************************************************************************)
(* GitHubService.invalidateUserCache / GitHubCacheService.invalidateUserCache *)
(***************************************************************************)
\* a validation failure is logged and swallowed: the call resolves
invalidateUserCache_Call(s, username) ==
  /\ Free(s)
  /\ LET r == NewReq("invalidateUserCache", [username |-> username])
         v == validateUsername(username)
     IN  req' = [req EXCEPT ![s] =
           IF ~v.ok THEN Finish(r, Void)
           ELSE [r EXCEPT !.pc = "delete", !.id = [user |-> v.value]]]
  /\ UNCHANGED <<nodeEnv, config, storeFaulty, store>>

\* Promise.allSettled([delete(user-stats key), delete(user-repositories key)])
invalidateUserCache_Delete(s) ==
  /\ req[s].op = "invalidateUserCache" /\ req[s].pc = "delete"
  /\ \E thr1 \in Throws, thr2 \in Throws :
       LET r == req[s]
           k1 == generateUserStatsKey(r.id.user, Undefined)
           k2 == generateUserRepositoriesKey(r.id.user)
       IN  /\ store' = CacheDelete(CacheDelete(store, k1.value, thr1), k2.value, thr2)
           /\ req' = [req EXCEPT ![s] =
                Finish([r EXCEPT !.dels = @ + 2,
                                 !.storeErrs = Bump(Bump(@, thr1), thr2)], Void)]
  /\ UNCHANGED <<nodeEnv, config, storeFaulty>>

(***************************************************************************)
(* GitHubService.warmUserCache / GitHubCacheService.warmUserCache          *)
(***************************************************************************)
warmUserCache_Call(s, username) ==
  /\ Free(s)
  /\ LET r == NewReq("warmUserCache", [username |-> username])
         v == validateUsername(username)
     IN  req' = [req EXCEPT ![s] =
           IF ~v.ok THEN Finish(r, Void)
           ELSE [r EXCEPT !.pc = "fetch",
                          !.id = [user |-> v.value,
                                  limit |-> OrNum(config.maxRepositories,
                                                  DefaultMaxRepositories)]]]
  /\ UNCHANGED <<nodeEnv, config, storeFaulty, store>>

\* Promise.all([getUser, getUserRepositories]); a failure of either is logged
\* and swallowed
warmUserCache_Fetch(s) ==
  /\ req[s].op = "warmUserCache" /\ req[s].pc = "fetch"
  /\ \E a1 \in Answers(WorldGetUser(req[s].id.user)),
        a2 \in Answers(WorldListForUser(req[s].id.user, ListPerPage(Undefined),
                                        DefaultPage(Undefined))) :
       LET r == [req[s] EXCEPT !.calls = @ \cup {"getUser", "getUserRepositories"}]
           user == ApiResult(a1, GetUserContext(r.id.user))
           repos == ApiResult(a2, GetUserRepositoriesContext(r.id.user))
       IN  req' = [req EXCEPT ![s] =
             IF ~user.ok THEN Finish([r EXCEPT !.upErr = Some(a1.error)], Void)
             ELSE IF ~repos.ok THEN Finish([r EXCEPT !.upErr = Some(a2.error)], Void)
             ELSE [r EXCEPT !.pc = "cacheSet",
                            !.tmp = Some(repos.value),
                            !.out = Some(BuildUserStats(user.value, repos.value,
                                                        r.id.limit))]]
  /\ UNCHANGED <<nodeEnv, config, storeFaulty, store>>

\* Promise.allSettled([set(user-stats key, userData), set(user-repos key, repos)])
warmUserCache_CacheSet(s) ==
  /\ req[s].op = "warmUserCache" /\ req[s].pc = "cacheSet"
  /\ \E thr1 \in Throws, thr2 \in Throws :
       LET r == req[s]
           k1 == generateUserStatsKey(r.id.user, Undefined)
           k2 == generateUserRepositoriesKey(r.id.user)
       IN  /\ store' = CacheSet(CacheSet(store, k1.value, r.out[1], Undefined,
                                         Tag(r, "user_stats"), thr1),
                                k2.value, r.tmp[1], Undefined, Tag(r, "user_repos"), thr2)
           /\ req' = [req EXCEPT ![s] =
                Finish([r EXCEPT !.sets = @ + 2,
                                 !.storeErrs = Bump(Bump(@, thr1), thr2)], Void)]
  /\ UNCHANGED <<nodeEnv, config, storeFaulty>>

(***************************************************************************)
(* GitHubValidators.validateStarRange                                      *)
(***************************************************************************)
\* a JavaScript number given as a star bound: the fraction num/den; None
\* when the bound is undefined
Frac(num, den) == <<num, den>>
NumberIsInteger(x) == x[1] % x[2] = 0
Less(x, y) == x[1] * y[2] < y[1] * x[2]

\* a validation that checks each bound but not their order
validateStarRange_NoOrderCheck(minStars, maxStars) ==
  IF minStars # None /\ (~NumberIsInteger(minStars) \/ Less(minStars, Frac(0, 1)))
    THEN ValidationError("validateStarRange")
  ELSE IF maxStars # None /\ (~NumberIsInteger(maxStars) \/ Less(maxStars, Frac(0, 1)))
    THEN ValidationError("validateStarRange")
  ELSE Ok([minStars |-> minStars, maxStars |-> maxStars])

validateStarRange(minStars, maxStars) ==
  IF minStars # None /\ (~NumberIsInteger(minStars) \/ Less(minStars, Frac(0, 1)))
    THEN ValidationError("validateStarRange")
  ELSE IF maxStars # None /\ (~NumberIsInteger(maxStars) \/ Less(maxStars, Frac(0, 1)))
    THEN ValidationError("validateStarRange")
  ELSE IF minStars # None /\ maxStars # None /\ Less(maxStars, minStars)
    THEN ValidationError("validateStarRange")
  ELSE Ok([minStars |-> minStars, maxStars |-> maxStars])

(***************************************************************************)
(* GitHubService.getRandomRepository                                       *)
(***************************************************************************)
\* the entries of aliasMap that the language inputs reach
LanguageAliases ==
  (<<"j", "s">> :> <<"J", "a", "v", "a", "S", "c", "r", "i", "p", "t">>) @@
  (<<"g", "o">> :> <<"G", "o">>) @@
  (<<"c", "+", "+">> :> <<"C", "+", "+">>)

WordChars == Alnum \cup {"_"}

UpperChar(c) ==
  IF c \in Lower
    THEN UpperSeq[CHOOSE i \in DOMAIN LowerSeq : LowerSeq[i] = c]
    ELSE c

\* whether position i of v lies in a match of /\w\S*/g
RECURSIVE InWordRun(_, _)
InWordRun(v, i) ==
  IF i < 1 THEN FALSE
  ELSE IF v[i] \in Whitespace THEN FALSE
  ELSE v[i] \in WordChars \/ InWordRun(v, i - 1)

\* v.replace(/\w\S*/g, (txt) => txt.charAt(0).toUpperCase() + txt.slice(1))
TitleCase(v) ==
  [i \in DOMAIN v |->
     IF v[i] \in WordChars /\ ~InWordRun(v, i - 1) THEN UpperChar(v[i]) ELSE v[i]]

\* normalizeLanguage: None for null
normalizeLanguage(input) ==
  LET v == Trim(input)
      lower == ToLowerCase(v)
  IN  IF v = <<>> THEN None
      ELSE IF lower \in DOMAIN LanguageAliases THEN Some(LanguageAliases[lower])
      ELSE Some(TitleCase(v))

\* the search query: is:public, the star qualifier, the language qualifier
RandomQuery(validated, language) ==
  LET stars ==
        IF validated.minStars # None /\ validated.maxStars # None
          THEN <<" stars:">> \o NatToStr(validated.minStars[1]) \o <<"..">>
                 \o NatToStr(validated.maxStars[1])
        ELSE IF validated.minStars # None
          THEN <<" stars:>=">> \o NatToStr(validated.minStars[1])
        ELSE IF validated.maxStars # None
          THEN <<" stars:<=">> \o NatToStr(validated.maxStars[1])
        ELSE <<" stars:>1">>
      normalizedLang == IF language = <<>> THEN None ELSE normalizeLanguage(language)
      needsQuotes == \E i \in DOMAIN normalizedLang[1] :
                       normalizedLang[1][i] \notin Alnum \cup {"_", "-"}
      lang == IF normalizedLang = None THEN <<>>
              ELSE IF needsQuotes
                THEN <<" language:", "\"">> \o normalizedLang[1] \o <<"\"">>
                ELSE <<" language:">> \o normalizedLang[1]
  IN  <<"is:public">> \o stars \o lang

\* COUNTRY_ALIASES: the entries of the table that the country inputs reach;
\* the two characters of the second alias of japan are no word characters
UnitedStates == <<"u", "n", "i", "t", "e", "d", " ", "s", "t", "a", "t", "e", "s">>

COUNTRY_ALIASES ==
  (UnitedStates :>
     << UnitedStates, <<"a", "m", "e", "r", "i", "c", "a">>,
        <<"u", ".", "s", ".", "a", ".">>, <<"u", ".", "s", ".">> >>) @@
  (<<"j", "a", "p", "a", "n">> :>
     << <<"j", "a", "p", "a", "n">>, <<"U+65E5", "U+672C">>,
        <<"n", "i", "p", "p", "o", "n">> >>)

\* COUNTRY_ALIASES[countryLower] || [countryLower]
AliasesOf(country) ==
  LET countryLower == ToLowerCase(Trim(country))
  IN  IF countryLower \in DOMAIN COUNTRY_ALIASES THEN COUNTRY_ALIASES[countryLower]
      ELSE <<countryLower>>

\* \b at the position before character p of location
WordBoundary(location, p) ==
  LET word(i) == IF i \in DOMAIN location THEN location[i] \in WordChars ELSE FALSE
  IN  word(p - 1) # word(p)

\* new RegExp(`\\b${alias}\\b`, 'i').test(location): the alias is the
\* pattern, so its "." stands for any character; the aliases and inputs
\* hold no other metacharacter
MatchesAlias(alias, location) ==
  \E st \in 1..(Len(location) - Len(alias) + 1) :
    /\ \A i \in DOMAIN alias :
         \/ alias[i] = "."
         \/ LowerChar(location[st + i - 1]) = LowerChar(alias[i])
    /\ WordBoundary(location, st)
    /\ WordBoundary(location, st + Len(alias))

\* location && aliases.some(alias => ...test(location)); location is None
\* when the lookup failed, and empty when the profile has none
LocationMatches(aliases, location) ==
  IF location = None THEN FALSE
  ELSE IF location[1] = <<>> THEN FALSE
  ELSE \E a \in DOMAIN aliases : MatchesAlias(aliases[a], location[1])

\* the upstream, as the random-repository search sees it: owners with
\* their profile location, and the pages of the search result
UserJ == <<"j">>
UserN == <<"n">>
UserU == <<"u">>
UserG == <<"g">>
UserS == <<"s">>

ProfileLocations ==
  (UserJ :> <<"x", " ", "J", "A", "P", "A", "N">>) @@
  (UserN :> <<"J", "a", "p", "a", "n", "s">>) @@
  (UserU :> <<>>) @@
  (UserS :> <<"U", "r", "s", "a">>) @@
  (UserA :> <<"B", "e", "r", "l", "i", "n">>)

SearchPages ==
  << << RawRepo(UserJ, RepoR1, 9, 1, 2, 3, "TypeScript"),
        RawRepo(UserN, RepoR2, 8, 1, 2, 3, "Go"),
        RawRepo(UserU, RepoR3, 7, 1, 2, 3, "") >>,
     << RawRepo(UserA, RepoR1, 5, 1, 9, 0, "TypeScript"),
        RawRepo(UserG, RepoR2, 4, 1, 2, 3, ""),
        RawRepo(UserS, RepoR3, 3, 1, 2, 3, "") >> >>

\* language -> bytes, as a sequence of pairs
UpstreamLanguages ==
  (<<UserJ, RepoR1>> :> << <<"TypeScript", 3>>, <<"Go", 1>> >>) @@
  (<<UserA, RepoR1>> :> <<>>)

WorldOwnerProfile(login) ==
  IF login \in DOMAIN ProfileLocations
    THEN Raw([login |-> login, location |-> ProfileLocations[login]])
    ELSE RawErr(NotFound)

WorldRandomSearch(page) ==
  Raw([total_count |-> 5,
       items |-> IF page \in DOMAIN SearchPages THEN SearchPages[page] ELSE <<>>])

WorldListLanguages(owner, repo) ==
  IF <<owner, repo>> \in DOMAIN UpstreamLanguages
    THEN Raw(UpstreamLanguages[<<owner, repo>>])
    ELSE RawErr(NotFound)

GetLanguagesContext(owner, repo) ==
  <<"getRepositoryLanguages for ">> \o owner \o <<"/">> \o repo

maxTries == 10
OwnerBatchSize == 5
DefaultRandomRepoMaxPages == 33

\* Math.min(config.randomRepoMaxPages || DEFAULTS.RANDOM_REPO_MAX_PAGES || 50, 100)
maxPages ==
  Min(OrNum(config.randomRepoMaxPages, DefaultRandomRepoMaxPages), UpstreamMaxPerPage)

\* an exhausted loop that returns an empty result instead of throwing
NoRepositoriesFound_EmptyResult(message) == Ok([data |-> None, message |-> message])

NoRepositoriesFound(message) ==
  [ok |-> FALSE, kind |-> "Error", status |-> 500, message |-> message]

\* the locals of a call: attempt counter, number of search calls, lastError,
\* the page searched last, the locations fetched for its owners,
\* filteredRepos, selectedRepo, and the enrichment steps whose failure was
\* caught
RandomLocals(query) ==
  [query |-> query, attempt |-> 0, searches |-> 0, lastError |-> FALSE,
   items |-> <<>>, fetched |-> <<>>, filteredRepos |-> <<>>, selected |-> None,
   caught |-> {}]

\* a retry loop without the attempt cap
AfterAttempt_NoCap(l) == "search"

\* attempt++ and the loop condition attempt < maxTries
NextAttempt(l) == [l EXCEPT !.attempt = @ + 1]
AfterAttempt(l) == IF l.attempt < maxTries THEN "search" ELSE "select"

getRandomRepository_Call(s, options) ==
  /\ Free(s)
  /\ LET r == NewReq("getRandomRepository", [options |-> options])
         v == validateStarRange(options.minStars, options.maxStars)
     IN  req' = [req EXCEPT ![s] =
           IF ~v.ok THEN Finish(r, v)
           ELSE [r EXCEPT !.pc = "search",
                          !.id = [country |-> options.country],
                          !.tmp = Some(RandomLocals(RandomQuery(v.value,
                                                                options.language)))]]
  /\ UNCHANGED <<nodeEnv, config, storeFaulty, store>>

\* a failed search that is caught like an empty page: lastError is set and
\* the loop continues
getRandomRepository_SearchPage_RetriesFailure(s, randomPage) ==
  /\ req[s].op = "getRandomRepository" /\ req[s].pc = "search"
  /\ \E a \in Answers(WorldRandomSearch(randomPage)) :
       LET r == [req[s] EXCEPT !.calls = @ \cup {"searchRepositories"}]
           l == [r.tmp[1] EXCEPT !.searches = @ + 1]
           searchResponse == ApiResult(a, SearchContext(l.query))
           empty == NextAttempt([l EXCEPT !.lastError = TRUE, !.items = <<>>,
                                          !.fetched = <<>>])
           found == [l EXCEPT !.items = searchResponse.value.items, !.fetched = <<>>,
                              !.filteredRepos = searchResponse.value.items]
       IN  req' = [req EXCEPT ![s] =
             IF ~searchResponse.ok
               THEN [r EXCEPT !.tmp = Some(empty), !.pc = AfterAttempt(empty),
                              !.upErr = Some(a.error)]
             ELSE IF searchResponse.value.items = <<>>
               THEN [r EXCEPT !.tmp = Some(empty), !.pc = AfterAttempt(empty)]
             ELSE IF r.id.country # <<>>
               THEN [r EXCEPT !.tmp = Some(found), !.pc = "filter"]
             ELSE [r EXCEPT !.tmp = Some(found), !.pc = "select"]]
  /\ UNCHANGED <<nodeEnv, config, storeFaulty, store>>

\* one attempt with the page drawn: a failed search throws, an empty page
\* sets lastError and continues, a page with items is taken, or filtered
\* when a country is given
getRandomRepository_SearchPage(s, randomPage) ==
  /\ req[s].op = "getRandomRepository" /\ req[s].pc = "search"
  /\ \E a \in Answers(WorldRandomSearch(randomPage)) :
       LET r == [req[s] EXCEPT !.calls = @ \cup {"searchRepositories"}]
           l == [r.tmp[1] EXCEPT !.searches = @ + 1]
           searchResponse == ApiResult(a, SearchContext(l.query))
           empty == NextAttempt([l EXCEPT !.lastError = TRUE, !.items = <<>>,
                                          !.fetched = <<>>])
           found == [l EXCEPT !.items = searchResponse.value.items, !.fetched = <<>>,
                              !.filteredRepos = searchResponse.value.items]
       IN  req' = [req EXCEPT ![s] =
             IF ~searchResponse.ok
               THEN Fail([r EXCEPT !.tmp = Some(l)], a, searchResponse)
             ELSE IF searchResponse.value.items = <<>>
               THEN [r EXCEPT !.tmp = Some(empty), !.pc = AfterAttempt(empty)]
             ELSE IF r.id.country # <<>>
               THEN [r EXCEPT !.tmp = Some(found), !.pc = "filter"]
             ELSE [r EXCEPT !.tmp = Some(found), !.pc = "select"]]
  /\ UNCHANGED <<nodeEnv, config, storeFaulty, store>>

\* Math.floor(Math.random() * maxPages) + 1: any page of 1..maxPages
getRandomRepository_Search(s) ==
  \E randomPage \in 1..maxPages : getRandomRepository_SearchPage(s, randomPage)

\* the owners of the page are looked up in batches; a failed lookup gives
\* no location
RECURSIVE OwnerLocations(_, _, _)
OwnerLocations(items, fails, from) ==
  IF from > Len(items) THEN <<>>
  ELSE LET to == Min(from + OwnerBatchSize - 1, Len(items))
           batch == [i \in 1..(to - from + 1) |->
                       LET w == WorldOwnerProfile(items[from + i - 1].owner)
                       IN  IF (from + i - 1) \in fails \/ ~w.ok THEN None
                           ELSE Some(w.data.location)]
       IN  batch \o OwnerLocations(items, fails, to + 1)

\* the repositories of the page whose fetched owner location matches
RECURSIVE KeepMatching(_, _, _, _)
KeepMatching(items, fetched, aliases, i) ==
  IF i > Len(items) THEN <<>>
  ELSE (IF LocationMatches(aliases, fetched[i]) THEN <<items[i]>> ELSE <<>>)
         \o KeepMatching(items, fetched, aliases, i + 1)

\* the country filter of the page searched last
getRandomRepository_Filter(s) ==
  /\ req[s].op = "getRandomRepository" /\ req[s].pc = "filter"
  /\ \E fails \in SUBSET DOMAIN req[s].tmp[1].items :
       LET r == [req[s] EXCEPT !.calls = @ \cup {"getUser"}]
           l == r.tmp[1]
           fetched == OwnerLocations(l.items, fails, 1)
           reposWithOwners == KeepMatching(l.items, fetched, AliasesOf(r.id.country), 1)
           kept == [l EXCEPT !.fetched = fetched, !.filteredRepos = reposWithOwners]
       IN  req' = [req EXCEPT ![s] =
             IF reposWithOwners # <<>>
               THEN [r EXCEPT !.tmp = Some(kept), !.pc = "select"]
               ELSE [r EXCEPT !.tmp = Some(NextAttempt(kept)),
                              !.pc = AfterAttempt(NextAttempt(kept))]]
  /\ UNCHANGED <<nodeEnv, config, storeFaulty, store>>

\* after the loop: without a candidate the call throws; else one is drawn
\* and its owner looked up
getRandomRepository_Select(s) ==
  /\ req[s].op = "getRandomRepository" /\ req[s].pc = "select"
  /\ LET r == req[s]
         l == r.tmp[1]
     IN  IF l.filteredRepos = <<>>
           THEN req' = [req EXCEPT ![s] =
                  Finish(r, IF l.lastError
                              THEN NoRepositoriesFound("No repositories found matching the criteria")
                              ELSE NoRepositoriesFound("No repositories found for the specified country."))]
           ELSE \E randomIndex \in DOMAIN l.filteredRepos :
                \E a \in Answers(WorldOwnerProfile(l.filteredRepos[randomIndex].owner)) :
                  LET selectedRepo == l.filteredRepos[randomIndex]
                      selectedOwnerLocation ==
                        IF a.ok THEN OrSeq(a.data.location, <<NullStr>>) ELSE <<NullStr>>
                      baseDto == [dto |-> transformToRepositoryDto(selectedRepo),
                                  ownerLocation |-> selectedOwnerLocation,
                                  languages |-> None]
                  IN  req' = [req EXCEPT ![s] =
                        [r EXCEPT !.calls = @ \cup {"getUser"},
                                  !.tmp = Some([l EXCEPT
                                             !.selected = Some(selectedRepo),
                                             !.caught = IF a.ok THEN {} ELSE {"getUser"}]),
                                  !.out = Some(baseDto), !.pc = "languages"]]
  /\ UNCHANGED <<nodeEnv, config, storeFaulty, store>>

\* language -> percentage of the bytes, rounded
attachLanguagePercentages(baseDto, langBytes) ==
  LET sum[i \in 0..Len(langBytes)] == IF i = 0 THEN 0 ELSE sum[i - 1] + langBytes[i][2]
      total == sum[Len(langBytes)]
  IN  [baseDto EXCEPT !.languages =
         Some([i \in DOMAIN langBytes |->
                 <<langBytes[i][1], (200 * langBytes[i][2] + total) \div (2 * total)>>])]

\* a language step whose failed lookup is thrown instead of caught
getRandomRepository_Languages_Uncaught(s) ==
  /\ req[s].op = "getRandomRepository" /\ req[s].pc = "languages"
  /\ \E a \in Answers(WorldListLanguages(req[s].tmp[1].selected[1].owner,
                                         req[s].tmp[1].selected[1].name)) :
       LET r == [req[s] EXCEPT !.calls = @ \cup {"getRepositoryLanguages"}]
           l == r.tmp[1]
           langBytes == ApiResult(a, GetLanguagesContext(l.selected[1].owner,
                                                         l.selected[1].name))
       IN  req' = [req EXCEPT ![s] =
             IF langBytes.ok
               THEN Finish(r, Ok([data |-> attachLanguagePercentages(r.out[1],
                                                                     langBytes.value)]))
               ELSE Fail([r EXCEPT !.tmp = Some([l EXCEPT !.caught =
                                                   @ \cup {"getRepositoryLanguages"}])],
                         a, langBytes)]
  /\ UNCHANGED <<nodeEnv, config, storeFaulty, store>>

\* the language breakdown: a failed lookup or a failed attachment returns
\* the DTO as it is
getRandomRepository_Languages(s) ==
  /\ req[s].op = "getRandomRepository" /\ req[s].pc = "languages"
  /\ \E a \in Answers(WorldListLanguages(req[s].tmp[1].selected[1].owner,
                                         req[s].tmp[1].selected[1].name)) :
     \E attachThrows \in BOOLEAN :
       LET r == [req[s] EXCEPT !.calls = @ \cup {"getRepositoryLanguages"}]
           l == r.tmp[1]
           langBytes == ApiResult(a, GetLanguagesContext(l.selected[1].owner,
                                                         l.selected[1].name))
           baseDto == r.out[1]
           failed == IF ~langBytes.ok THEN {"getRepositoryLanguages"}
                     ELSE IF attachThrows THEN {"attachLanguagePercentages"}
                     ELSE {}
       IN  req' = [req EXCEPT ![s] =
             Finish([r EXCEPT !.tmp = Some([l EXCEPT !.caught = @ \cup failed])],
                    Ok([data |-> IF failed = {}
                                   THEN attachLanguagePercentages(baseDto, langBytes.value)
                                   ELSE baseDto]))]
  /\ UNCHANGED <<nodeEnv, config, storeFaulty, store>>

(***************************************************************************)
(* GitHubApiService.getAllUserRepositories                                 *)
(***************************************************************************)
AllPerPage == 100
Endless == -1

\* a full page, as an upstream that echoes the requested size answers
FullPage == [i \in 1..AllPerPage |-> RawRepo(UserA, RepoR1, 5, 1, 9, 0, "TypeScript")]

\* the answer of upstream to the listing of page number page, for an
\* upstream that answers fullPages full pages (all of them when Endless),
\* then its last page, and fails the call for page faultAt
ListingAnswer(upstream, page) ==
  IF upstream.faultAt = page THEN RawErr(upstream.fault)
  ELSE IF upstream.fullPages = Endless \/ page <= upstream.fullPages THEN Raw(FullPage)
  ELSE Raw(upstream.last)

GetAllUserRepositoriesContext(username) ==
  <<"getAllUserRepositories for ">> \o username

\* handleApiError applied to an error that handleApiError has thrown: it
\* reads the status and message of the exception, which has no headers
Reclassified(error, context) ==
  handleApiError(HttpError(error.status, error.message, ""), context)

getAllUserRepositories_Call(s, username, upstream) ==
  /\ Free(s)
  /\ req' = [req EXCEPT ![s] =
       [NewReq("getAllUserRepositories", [username |-> username, upstream |-> upstream])
          EXCEPT !.pc = "fetch", !.tmp = Some([page |-> 1, allRepos |-> <<>>])]]
  /\ UNCHANGED <<nodeEnv, config, storeFaulty, store>>

\* page++, with the page numbers above maxPage told apart only as odd and
\* even: upstream answers them alike, and the loop reads nothing else of them
NextPageNumber(page, maxPage) ==
  IF page <= maxPage THEN page + 1 ELSE maxPage + 1 + ((page - maxPage) % 2)

\* one iteration of while (true): list the page, leave on an empty or a
\* short page, else go on with the next page; the pages above maxPage are
\* not kept in allRepos
getAllUserRepositories_Fetch(s, maxPage) ==
  /\ req[s].op = "getAllUserRepositories" /\ req[s].pc = "fetch"
  /\ LET r == [req[s] EXCEPT !.calls = @ \cup {"getUserRepositories"}]
         l == r.tmp[1]
         a == ListingAnswer(r.args.upstream, l.page)
         repos == ApiResult(a, GetUserRepositoriesContext(r.args.username))
         allRepos == IF l.page <= maxPage THEN l.allRepos \o repos.value
                     ELSE l.allRepos
     IN  req' = [req EXCEPT ![s] =
           IF ~repos.ok
             THEN Fail(r, a, Reclassified(repos,
                                          GetAllUserRepositoriesContext(r.args.username)))
           ELSE IF Len(repos.value) = 0
             THEN Finish(r, Ok([data |-> l.allRepos]))
           ELSE IF Len(repos.value) < ListPerPage(AllPerPage)
             THEN Finish([r EXCEPT !.tmp = Some([l EXCEPT !.allRepos = allRepos])],
                         Ok([data |-> allRepos]))
           ELSE [r EXCEPT !.tmp = Some([page |-> NextPageNumber(l.page, maxPage),
                                        allRepos |-> allRepos])]]
  /\ UNCHANGED <<nodeEnv, config, storeFaulty, store>>

(***************************************************************************)
(* GitHubApiService.batchGetLatestCommits                                  *)
(***************************************************************************)
batchSize == 10

\* the answer to the commit listing of the pair at position i: a transient
\* failure for the positions in failed, else what upstream holds
CommitsAnswer(repositories, failed, i) ==
  IF i \in failed THEN RawErr(HttpError(Undefined, "", ""))
  ELSE WorldListCommits(repositories[i].owner, repositories[i].repo)

\* a batch that sets no entry for a pair whose lookup failed
BatchEntries_SkipsFailed(repositories, failed, from, to) ==
  LET ok == { i \in from..to : CommitsAnswer(repositories, failed, i).ok }
  IN  [k \in { FullName(repositories[i].owner, repositories[i].repo) : i \in ok } |->
         LatestCommit(CommitsAnswer(repositories, failed,
                        CHOOSE i \in ok :
                          FullName(repositories[i].owner, repositories[i].repo) = k))]

\* results.set(key, commit) for the pairs at positions from..to; the pairs
\* of a batch are distinct, so the order of the sets does not show
BatchEntries(repositories, failed, from, to) ==
  [k \in { FullName(repositories[i].owner, repositories[i].repo) : i \in from..to } |->
     LatestCommit(CommitsAnswer(repositories, failed,
                    CHOOSE i \in from..to :
                      FullName(repositories[i].owner, repositories[i].repo) = k))]

batchGetLatestCommits_Call(s, repositories) ==
  /\ Free(s)
  /\ LET r == NewReq("batchGetLatestCommits", [repositories |-> repositories])
     IN  req' = [req EXCEPT ![s] =
           IF Len(repositories) = 0 THEN Finish(r, Ok([data |-> <<>>]))
           ELSE [r EXCEPT !.pc = "batch",
                          !.tmp = Some([i |-> 0, results |-> <<>>, failed |-> {}])]]
  /\ UNCHANGED <<nodeEnv, config, storeFaulty, store>>

\* one batch: the lookups of up to batchSize pairs, all settled; at most
\* maxFailures of them fail
batchGetLatestCommits_Batch(s, maxFailures) ==
  /\ req[s].op = "batchGetLatestCommits" /\ req[s].pc = "batch"
  /\ LET r == [req[s] EXCEPT !.calls = @ \cup {"getRepositoryCommits"}]
         l == r.tmp[1]
         repositories == r.args.repositories
         from == l.i + 1
         to == Min(l.i + batchSize, Len(repositories))
     IN  \E failed \in { f \in SUBSET (from..to) : Cardinality(f) <= maxFailures } :
           LET results == BatchEntries(repositories, failed, from, to) @@ l.results
               l1 == [i |-> l.i + batchSize, results |-> results,
                      failed |-> l.failed \cup failed]
           IN  req' = [req EXCEPT ![s] =
                 IF l1.i < Len(repositories) THEN [r EXCEPT !.tmp = Some(l1)]
                 ELSE Finish([r EXCEPT !.tmp = Some(l1)], Ok([data |-> results]))]
  /\ UNCHANGED <<nodeEnv, config, storeFaulty, store>>

\* batch.map(async ...) of every pair at once, without batches
batchGetLatestCommits_Launch_All(s) ==
  /\ req[s].op = "batchGetLatestCommits" /\ req[s].pc = "batch"
  /\ LET r == req[s]
         l == r.tmp[1]
     IN  req' = [req EXCEPT ![s] =
           [r EXCEPT !.pc = "settle",
                     !.calls = @ \cup {"getRepositoryCommits"},
                     !.tmp = Some([i |-> l.i, results |-> l.results, failed |-> l.failed,
                                   pending |-> (l.i + 1)..Len(r.args.repositories)])]]
  /\ UNCHANGED <<nodeEnv, config, storeFaulty, store>>

\* the same loop with every lookup as a step of its own.  batch.map(async
\* ...) starts the lookups of the pairs i+1 .. i+batchSize at once; they are
\* pending until each settles
batchGetLatestCommits_Launch(s) ==
  /\ req[s].op = "batchGetLatestCommits" /\ req[s].pc = "batch"
  /\ LET r == req[s]
         l == r.tmp[1]
         to == Min(l.i + batchSize, Len(r.args.repositories))
     IN  req' = [req EXCEPT ![s] =
           [r EXCEPT !.pc = "settle",
                     !.calls = @ \cup {"getRepositoryCommits"},
                     !.tmp = Some([i |-> l.i, results |-> l.results, failed |-> l.failed,
                                   pending |-> (l.i + 1)..to])]]
  /\ UNCHANGED <<nodeEnv, config, storeFaulty, store>>

\* one pending lookup settles: getLatestCommit gives the commit, or null
\* when the listing failed, and results.set(key, commit) runs.  When it was
\* the last one pending, Promise.allSettled resolves and the loop goes on
\* with i += batchSize
batchGetLatestCommits_Settle(s, maxFailures) ==
  /\ req[s].op = "batchGetLatestCommits" /\ req[s].pc = "settle"
  /\ LET r == req[s]
         l == r.tmp[1]
         repositories == r.args.repositories
     IN  \E p \in l.pending, fails \in BOOLEAN :
           /\ fails => Cardinality(l.failed) < maxFailures
           /\ LET failed == IF fails THEN l.failed \cup {p} ELSE l.failed
                  key == FullName(repositories[p].owner, repositories[p].repo)
                  commit == LatestCommit(CommitsAnswer(repositories, failed, p))
                  results == (key :> commit) @@ l.results
                  pending == l.pending \ {p}
                  l1 == [i |-> IF pending = {} THEN l.i + batchSize ELSE l.i,
                         results |-> results, failed |-> failed, pending |-> pending]
              IN  req' = [req EXCEPT ![s] =
                    IF pending # {} THEN [r EXCEPT !.tmp = Some(l1)]
                    ELSE IF l1.i < Len(repositories)
                      THEN [r EXCEPT !.tmp = Some(l1), !.pc = "batch"]
                    ELSE Finish([r EXCEPT !.tmp = Some(l1)], Ok([data |-> results]))]
  /\ UNCHANGED <<nodeEnv, config, storeFaulty, store>>

(***************************************************************************)
(* The key builders, applied to two key queries.  A key query names the    *)
(* builder, its identifiers and its number (limit or page, Undefined when  *)
(* not given).                                                             *)
(***************************************************************************)
KeyOf(q) ==
  CASE q.kind = "userStats" -> generateUserStatsKey(q.ids[1], q.num)
    [] q.kind = "userRepos" -> generateUserRepositoriesKey(q.ids[1])
    [] q.kind = "repo" -> generateRepositoryKey(q.ids[1], q.ids[2])
    [] q.kind = "readme" -> generateReadmeKey(q.ids[1], q.ids[2])
    [] q.kind = "search" -> generateSearchKey(q.ids[1], q.num)

generateKeys_Build(s) ==
  /\ req[s].op = "generateKeys" /\ req[s].pc = "start"
  /\ req' = [req EXCEPT ![s] =
       Finish(req[s], Ok([first |-> KeyOf(req[s].args.first),
                          second |-> KeyOf(req[s].args.second)]))]
  /\ UNCHANGED <<nodeEnv, config, storeFaulty, store>>

(***************************************************************************)
(* GitHubCacheService.get / set / delete called on their own               *)
(***************************************************************************)
\* a get that takes every falsy value for a miss
GetResult_FalsyIsMiss(cached) ==
  IF cached = None \/ cached[1].value \in {Undefined, Null, 0}
    THEN Null ELSE cached[1].value

\* get: value !== undefined && value !== null ? value : null
GetResult(cached) ==
  IF cached = None \/ cached[1].value \in {Undefined, Null}
    THEN Null ELSE cached[1].value

cacheService_get(s, key) ==
  /\ Free(s)
  /\ \E thr \in Throws :
       LET r == [NewReq("get", [key |-> key]) EXCEPT
                   !.gets = 1, !.storeErrs = Bump(0, thr), !.key = key]
       IN  req' = [req EXCEPT ![s] =
             Finish(r, Ok(GetResult(CacheGet(store, key, thr))))]
  /\ UNCHANGED <<nodeEnv, config, storeFaulty, store>>

cacheService_set(s, key, value, ttl) ==
  /\ Free(s)
  /\ \E thr \in Throws :
       LET args == [key |-> key, value |-> value, ttl |-> ttl]
           r == [NewReq("set", args) EXCEPT
                   !.sets = 1, !.storeErrs = Bump(0, thr), !.key = key, !.id = args]
       IN  /\ store' = CacheSet(store, key, value, ttl, Tag(r, "value"), thr)
           /\ req' = [req EXCEPT ![s] = Finish(r, Void)]
  /\ UNCHANGED <<nodeEnv, config, storeFaulty>>

cacheService_delete(s, key) ==
  /\ Free(s)
  /\ \E thr \in Throws :
       LET r == [NewReq("delete", [key |-> key]) EXCEPT
                   !.dels = 1, !.storeErrs = Bump(0, thr), !.key = key]
       IN  /\ store' = CacheDelete(store, key, thr)
           /\ req' = [req EXCEPT ![s] = Finish(r, Void)]
  /\ UNCHANGED <<nodeEnv, config, storeFaulty>>

(***************************************************************************)
(* An upstream failure on its way out: handleApiError throws the           *)
(* classified error, GitHubExceptionFilter.catch receives what was thrown  *)
(***************************************************************************)
\* the exception classes that extend HttpException
HttpExceptions ==
  { "GitHubApiError", "GitHubNotFoundError", "GitHubRateLimitError",
    "GitHubValidationError" }

\* the status code of the response: an HttpException is thrown on to NestJS,
\* which answers with the exception's own status code; anything else goes
\* through the filter's switch
FilterStatus(exception) ==
  IF exception.kind \in HttpExceptions THEN exception.status
  ELSE CASE exception.status = 404 -> 404
         [] exception.status = 403 -> 429
         [] exception.status = 422 -> 422
         [] OTHER -> 500

handleApiError_Throw(s) ==
  /\ req[s].op = "handleApiError" /\ req[s].pc = "start"
  /\ req' = [req EXCEPT ![s] =
       [req[s] EXCEPT !.pc = "thrown", !.upErr = Some(req[s].args.error),
                      !.result = handleApiError(req[s].args.error, req[s].args.context)]]
  /\ UNCHANGED <<nodeEnv, config, storeFaulty, store>>

GitHubExceptionFilter_catch(s) ==
  /\ req[s].pc = "thrown"
  /\ req' = [req EXCEPT ![s] =
       [req[s] EXCEPT !.pc = "done",
                      !.out = Some([statusCode |-> FilterStatus(req[s].result)])]]
  /\ UNCHANGED <<nodeEnv, config, storeFaulty, store>>

(***************************************************************************)
(* GitHubTransformService.calculateLanguageStats                           *)
(***************************************************************************)
\* if (repo.language)
HasLanguage(repo) == repo.language \notin {"", NullStr}

\* Math.round of the non-negative fraction num / den
MathRound(num, den) == (2 * num + den) \div (2 * den)

\* the keys of languageMap in insertion order
RECURSIVE LanguageNames(_, _)
LanguageNames(repos, seen) ==
  IF repos = <<>> THEN <<>>
  ELSE IF HasLanguage(Head(repos)) /\ Head(repos).language \notin seen
         THEN <<Head(repos).language>>
                \o LanguageNames(Tail(repos), seen \cup {Head(repos).language})
         ELSE LanguageNames(Tail(repos), seen)

LanguageCount(repos, name) ==
  Cardinality({ i \in DOMAIN repos : HasLanguage(repos[i]) /\ repos[i].language = name })

\* statistics whose percentages are taken of all repositories
calculateLanguageStats_OfAll(repos) ==
  LET names == LanguageNames(repos, {})
      stats == [i \in DOMAIN names |->
                  [name |-> names[i],
                   count |-> LanguageCount(repos, names[i]),
                   percentage |-> MathRound(LanguageCount(repos, names[i]) * 100,
                                            Len(repos))]]
  IN  StableSortDesc(stats, [i \in DOMAIN stats |-> stats[i].count])

calculateLanguageStats(repos) ==
  LET names == LanguageNames(repos, {})
      totalRepos == Cardinality({ i \in DOMAIN repos : HasLanguage(repos[i]) })
      stats == [i \in DOMAIN names |->
                  [name |-> names[i],
                   count |-> LanguageCount(repos, names[i]),
                   percentage |->
                     IF totalRepos > 0
                       THEN MathRound(LanguageCount(repos, names[i]) * 100, totalRepos)
                       ELSE 0]]
  IN  StableSortDesc(stats, [i \in DOMAIN stats |-> stats[i].count])

(***************************************************************************)
(* The transform service's functions, each called on its own               *)
(***************************************************************************)
\* the caller's list is held in tmp: the functions work on a copy
sortRepositoriesByStars_Apply(s) ==
  /\ req[s].op = "sortRepositoriesByStars" /\ req[s].pc = "start"
  /\ req' = [req EXCEPT ![s] =
       Finish([req[s] EXCEPT !.out = Some(sortRepositoriesByStars(req[s].tmp[1].repos))],
              Ok("returned"))]
  /\ UNCHANGED <<nodeEnv, config, storeFaulty, store>>

limitRepositories_Apply(s) ==
  /\ req[s].op = "limitRepositories" /\ req[s].pc = "start"
  /\ req' = [req EXCEPT ![s] =
       Finish([req[s] EXCEPT
                 !.out = Some(limitRepositories(req[s].tmp[1].repos, req[s].args.limit))],
              Ok("returned"))]
  /\ UNCHANGED <<nodeEnv, config, storeFaulty, store>>

calculateLanguageStats_Apply(s) ==
  /\ req[s].op = "calculateLanguageStats" /\ req[s].pc = "start"
  /\ req' = [req EXCEPT ![s] =
       Finish([req[s] EXCEPT !.out = Some(calculateLanguageStats(req[s].tmp[1].repos))],
              Ok("returned"))]
  /\ UNCHANGED <<nodeEnv, config, storeFaulty, store>>

transformToRepositoryDtoWithCommitData_Apply(s) ==
  /\ req[s].op = "transformToRepositoryDtoWithCommitData" /\ req[s].pc = "start"
  /\ req' = [req EXCEPT ![s] =
       Finish([req[s] EXCEPT
                 !.out = Some(transformToRepositoryDtoWithCommitData(
                                req[s].args.repo, req[s].args.commitData))],
              Ok("returned"))]
  /\ UNCHANGED <<nodeEnv, config, storeFaulty, store>>

(***************************************************************************)
(* The cache store drops an entry: its TTL elapsed or it was evicted       *)
(***************************************************************************)
Expire(k) ==
  /\ k \in DOMAIN store
  /\ store' = [x \in DOMAIN store \ {k} |-> store[x]]
  /\ UNCHANGED <<nodeEnv, config, storeFaulty, req>>

(***************************************************************************)
(* The operations, over given input sets                                   *)
(***************************************************************************)
GetUserStats(usernames, limits) ==
  \E s \in Slots :
    \/ \E u \in usernames, l \in limits : getUserStats_Call(s, u, l)
    \/ getUserStats_CacheGet(s)
    \/ getUserStats_FetchUser(s)
    \/ getUserStats_FetchRepos(s)
    \/ getUserStats_CacheSet(s)

GetRepository(repos) ==
  \E s \in Slots :
    \/ \E p \in repos : getRepository_Call(s, p[1], p[2])
    \/ getRepository_CacheGet(s)
    \/ getRepository_Fetch(s)
    \/ getRepository_CacheSet(s)

GetRepositoryReadme(repos) ==
  \E s \in Slots :
    \/ \E p \in repos : getRepositoryReadme_Call(s, p[1], p[2])
    \/ getRepositoryReadme_CacheGet(s)
    \/ getRepositoryReadme_Fetch(s)
    \/ getRepositoryReadme_CacheSet(s)

GetUserRepositories(usernames, options) ==
  \E s \in Slots :
    \/ \E u \in usernames, o \in options : getUserRepositories_Call(s, u, o)
    \/ getUserRepositories_CacheGet(s)
    \/ getUserRepositories_Fetch(s)
    \/ getUserRepositories_CacheSet(s)
    \/ getUserRepositories_Commits(s)

SearchRepositories(queries, options) ==
  \E s \in Slots :
    \/ \E q \in queries, o \in options : searchRepositories_Call(s, q, o)
    \/ searchRepositories_CacheGet(s)
    \/ searchRepositories_Fetch(s)
    \/ searchRepositories_CacheSet(s)

InvalidateUserCache(usernames) ==
  \E s \in Slots :
    \/ \E u \in usernames : invalidateUserCache_Call(s, u)
    \/ invalidateUserCache_Delete(s)

WarmUserCache(usernames) ==
  \E s \in Slots :
    \/ \E u \in usernames : warmUserCache_Call(s, u)
    \/ warmUserCache_Fetch(s)
    \/ warmUserCache_CacheSet(s)

GetRandomRepository(options) ==
  \E s \in Slots :
    \/ \E o \in options : getRandomRepository_Call(s, o)
    \/ getRandomRepository_Search(s)
    \/ getRandomRepository_Filter(s)
    \/ getRandomRepository_Select(s)
    \/ getRandomRepository_Languages(s)

CacheService(keys, values, ttls) ==
  \E s \in Slots, key \in keys :
    \/ cacheService_get(s, key)
    \/ \E value \in values, ttl \in ttls : cacheService_set(s, key, value, ttl)
    \/ cacheService_delete(s, key)

ExpireEntry == \E k \in DOMAIN store : Expire(k)

InitWith(envs, configs, faulty) ==
  /\ nodeEnv \in envs
  /\ config \in configs
  /\ storeFaulty = faulty
  /\ store = <<>>
  /\ req = [s \in Slots |-> IdleReq]

(***************************************************************************)
(* Spec: the five read operations, one request at a time, over a reliable  *)
(* backing store                                                           *)
(***************************************************************************)
Init == InitWith({"production"}, {DefaultConfig}, FALSE)

Next ==
  \/ GetUserStats(ReadUsernames, ReadLimits)
  \/ GetRepository(RepoInputs)
  \/ GetRepositoryReadme(RepoInputs)
  \/ GetUserRepositories(ReadUsernames, ReadReposOptions)
  \/ SearchRepositories(QueryInputs, SearchOptions)
  \/ ExpireEntry

Spec == Init /\ [][Next]_vars

(***************************************************************************)
(* SpecUser: the operations on a user's entries, including invalidation    *)
(* and warming, over a reliable backing store                              *)
(***************************************************************************)
InitUser == InitWith({"production"}, Configs, FALSE)

NextUser ==
  \/ GetUserStats(UsernameInputs, LimitInputs)
  \/ GetUserRepositories(UsernameInputs, ReposOptions)
  \/ InvalidateUserCache(UsernameInputs)
  \/ WarmUserCache(UsernameInputs)
  \/ ExpireEntry

SpecUser == InitUser /\ [][NextUser]_vars

(***************************************************************************)
(* SpecFault: every operation, over a backing store that may throw on any  *)
(* get, set or del                                                         *)
(***************************************************************************)
InitFault == InitWith({"production"}, {DefaultConfig}, TRUE)

NextFault ==
  \/ GetUserStats(FaultUsernames, {Undefined})
  \/ GetRepository(FaultRepos)
  \/ GetRepositoryReadme(FaultRepos)
  \/ GetUserRepositories(FaultUsernames, ReadReposOptions)
  \/ SearchRepositories({<<"q">>}, {[page |-> Undefined, perPage |-> Undefined, sort |-> ""]})
  \/ InvalidateUserCache(FaultUsernames)
  \/ WarmUserCache(FaultUsernames)
  \/ ExpireEntry

SpecFault == InitFault /\ [][NextFault]_vars

(***************************************************************************)
(* SpecRandom: getRandomRepository with every combination of star bounds,  *)
(* language and country, over an upstream that may fail any call           *)
(***************************************************************************)
MaxStars == 1
StarInputs ==
  { None, Frac(-1, 1), Frac(3, 2) } \cup { Frac(n, 1) : n \in 0..MaxStars }

\* language and country, as given together
LanguageAndCountry ==
  { << <<>>, <<>> >>,
    << <<" ", "c", "+">>, <<>> >>,
    << <<>>, <<" ", "J", "a", "p", "a", "n">> >>,
    << <<>>, <<"b", "e", "r", "l", "i", "n">> >>,
    << <<" ", "c", "+">>, UnitedStates >> }

RandomOptions ==
  { [minStars |-> lo, maxStars |-> hi, language |-> lc[1], country |-> lc[2]] :
      lo \in StarInputs, hi \in StarInputs, lc \in LanguageAndCountry }

InitRandom == InitWith({"production"}, {DefaultConfig}, FALSE)

NextRandom == GetRandomRepository(RandomOptions)

SpecRandom == InitRandom /\ [][NextRandom]_vars

(***************************************************************************)
(* SpecAllRepos: getAllUserRepositories against every upstream behaviour:  *)
(* any number of full pages, a short or an empty last page, a failing call.*)
(* Upstream answers the pages above MaxFetchedPages alike.  Steps are      *)
(* taken as long as one is possible.                                       *)
(***************************************************************************)
MaxFetchedPages == 3

UpstreamBehaviours ==
  { [fullPages |-> n, last |-> la, faultAt |-> p, fault |-> f] :
      n \in {Endless} \cup (0..(MaxFetchedPages - 1)),
      la \in { <<>>, UpstreamRepos[UserA] },
      p \in 0..MaxFetchedPages,
      f \in TransientFaults \cup {NotFound} }

GetAllUserRepositories(usernames, upstreams) ==
  \E s \in Slots :
    \/ \E u \in usernames, b \in upstreams : getAllUserRepositories_Call(s, u, b)
    \/ getAllUserRepositories_Fetch(s, MaxFetchedPages)

InitAllRepos == InitWith({"production"}, {DefaultConfig}, FALSE)

NextAllRepos == GetAllUserRepositories({UserA}, UpstreamBehaviours)

SpecAllRepos == InitAllRepos /\ [][NextAllRepos]_vars /\ WF_vars(NextAllRepos)

(***************************************************************************)
(* SpecBatch: batchGetLatestCommits with lists of distinct pairs, among    *)
(* them one longer than a batch, and lookups that fail                     *)
(***************************************************************************)
MaxFailures == 2
MaxPairs == 2

Pair(o, n) == [owner |-> o, repo |-> n]

\* twelve pairs; upstream holds a commit for the first, no commit for the
\* second, and does not know the others
PairSeq ==
  << Pair(UserA, RepoR1), Pair(UserA, RepoR2), Pair(UserA, RepoR3),
     Pair(UserC, RepoR1), Pair(UserC, RepoR2), Pair(UserC, RepoR3),
     Pair(UserJ, RepoR1), Pair(UserJ, RepoR2), Pair(UserJ, RepoR3),
     Pair(UserN, RepoR1), Pair(UserN, RepoR2), Pair(UserN, RepoR3) >>

\* the lists of up to MaxPairs distinct pairs out of the first three, and
\* the two long lists
PairLists ==
  { ps \in UNION { [1..n -> {PairSeq[1], PairSeq[2], PairSeq[3]}] : n \in 0..MaxPairs } :
      \A i, j \in DOMAIN ps : i # j => ps[i] # ps[j] }
    \cup { SubSeq(PairSeq, 1, batchSize + 1), PairSeq }

BatchGetLatestCommits(lists) ==
  \E s \in Slots :
    \/ \E ps \in lists : batchGetLatestCommits_Call(s, ps)
    \/ batchGetLatestCommits_Batch(s, MaxFailures)

InitBatch == InitWith({"production"}, {DefaultConfig}, FALSE)

NextBatch == BatchGetLatestCommits(PairLists)

SpecBatch == InitBatch /\ [][NextBatch]_vars

(***************************************************************************)
(* SpecStats: getUserStats for an account with few repositories and for    *)
(* one with more repositories than a listing page                          *)
(***************************************************************************)
InitStats == InitWith({"production"}, {DefaultConfig}, FALSE)

NextStats ==
  \/ GetUserStats({UserA, UserM}, LimitInputs)
  \/ ExpireEntry

SpecStats == InitStats /\ [][NextStats]_vars

(***************************************************************************)
(* SpecKeys: every pair of key queries over identifiers with and without   *)
(* colons, capitals and blanks, and numbers up to MaxKeyNumber; then       *)
(* searches, whose key is built from the query as the caller gave it       *)
(***************************************************************************)
MaxKeyNumber == 1

KeyIdentifiers ==
  { <<"a">>, <<"A">>, <<"a", " ">>, <<"b">>, <<"a", ":", "b">>, <<"b", ":", "b">>,
    <<"a", ":", "m", "a", "x", ":", "1">>, <<" ">>, <<>> }

KeyNumbers == {Undefined} \cup (0..MaxKeyNumber)

KeyQueries ==
  { [kind |-> k, ids |-> <<i>>, num |-> n] :
      k \in {"userStats", "search"}, i \in KeyIdentifiers, n \in KeyNumbers }
    \cup { [kind |-> "userRepos", ids |-> <<i>>, num |-> Undefined] : i \in KeyIdentifiers }
    \cup { [kind |-> k, ids |-> <<i, j>>, num |-> Undefined] :
             k \in {"repo", "readme"}, i \in KeyIdentifiers, j \in KeyIdentifiers }

InitKeys ==
  /\ nodeEnv = "production"
  /\ config = DefaultConfig
  /\ storeFaulty = FALSE
  /\ store = <<>>
  /\ req \in { [s \in Slots |-> NewReq("generateKeys", [first |-> a, second |-> b])] :
                 a \in KeyQueries, b \in KeyQueries }

BlankAndPlainQueries == { <<>>, <<" ">>, <<" ", " ">>, <<"q">> }

NextKeys ==
  \/ \E s \in Slots : generateKeys_Build(s)
  \/ SearchRepositories(BlankAndPlainQueries, SearchOptions)

SpecKeys == InitKeys /\ [][NextKeys]_vars

(***************************************************************************)
(* SpecCache: get, set and delete of the cache service on two keys, with   *)
(* and without a ttl, in both environments, under every configured default *)
(* TTL and over a backing store that may throw; and one search             *)
(***************************************************************************)
CacheKeys == { <<"k">>, <<"j">> }
CacheValues == { 0, 1, Null }
CacheTtls == { Undefined, 0, 600000 }
CacheTimeouts == { 0, 60000, 300000 }

InitCache ==
  /\ nodeEnv \in {"production", "test"}
  /\ config \in { [DefaultConfig EXCEPT !.cacheTimeout = t] : t \in CacheTimeouts }
  /\ storeFaulty \in BOOLEAN
  /\ store = <<>>
  /\ req = [s \in Slots |-> IdleReq]

NextCache ==
  \/ CacheService(CacheKeys, CacheValues, CacheTtls)
  \/ SearchRepositories({<<"q">>}, {[page |-> Undefined, perPage |-> Undefined, sort |-> ""]})
  \/ ExpireEntry

SpecCache == InitCache /\ [][NextCache]_vars

(***************************************************************************)
(* SpecErrors: every upstream failure of a set of statuses, messages and   *)
(* rate-limit headers, classified and handed to the exception filter; and  *)
(* errors that reach the filter unclassified                               *)
(***************************************************************************)
ErrorStatuses == { Undefined, 401, 403, 404, 422, 429, 500, 502 }

ErrorMessages ==
  { "", "Forbidden", "Rate Limited", "API rate limit exceeded for user",
    "You have exceeded a secondary rate limit" }

ErrorInputs ==
  { HttpError(st, m, h) : st \in ErrorStatuses, m \in ErrorMessages, h \in {"", "0", "5"} }

ErrorContexts == { GetUserContext(UserA), GetRepositoryContext(UserA, RepoR1) }

\* an error thrown past handleApiError, as the filter receives it
Unclassified(e) ==
  [NewReq("throw", [error |-> e]) EXCEPT
     !.pc = "thrown",
     !.result = [ok |-> FALSE, kind |-> "Error", status |-> e.status,
                 message |-> e.message, context |-> <<>>]]

InitErrors ==
  /\ nodeEnv = "production"
  /\ config = DefaultConfig
  /\ storeFaulty = FALSE
  /\ store = <<>>
  /\ req \in
       { [s \in Slots |-> NewReq("handleApiError", [error |-> e, context |-> c])] :
           e \in ErrorInputs, c \in ErrorContexts }
         \cup { [s \in Slots |-> Unclassified(e)] : e \in ErrorInputs }

NextErrors ==
  \E s \in Slots :
    \/ handleApiError_Throw(s)
    \/ GitHubExceptionFilter_catch(s)

SpecErrors == InitErrors /\ [][NextErrors]_vars

(***************************************************************************)
(* SpecTransform: sort and limit on every list of up to MaxListLen          *)
(* repositories with missing, zero and positive star counts; language      *)
(* statistics on every such list of repositories with and without a        *)
(* language; the last commit date of a repository for every combination of *)
(* present and empty dates                                                 *)
(***************************************************************************)
MaxListLen == 3

ListedStars == { Undefined, 0, 1 }
ListedLanguages == { "", "ts", "go", "c" }

\* the lists of exactly n repositories, named by their position
RECURSIVE ListsOfLen(_, _, _)
ListsOfLen(n, stars, languages) ==
  IF n = 0 THEN { <<>> }
  ELSE { Append(l, RawRepo(UserA, NatToStr(n), st, 1, 1, 1, la)) :
           l \in ListsOfLen(n - 1, stars, languages), st \in stars, la \in languages }

\* lists that differ in their star counts, and lists that differ in their
\* languages
StarredLists == UNION { ListsOfLen(n, ListedStars, {"ts"}) : n \in 0..MaxListLen }
LanguageLists == UNION { ListsOfLen(n, {1}, ListedLanguages) : n \in 0..MaxListLen }

LimitValues == (0 - 1)..(MaxListLen + 1)

DatedRepos ==
  { RawRepo(UserA, RepoR1, 1, cr, up, pu, "") :
      cr \in {0, 1}, up \in {0, 2}, pu \in {0, 3} }

CommitInputs ==
  { None } \cup
  { Some([sha |-> "s1", message |-> "m", committer_date |-> cd, author_date |-> ad,
          html_url |-> "c1"]) : cd \in {0, 5}, ad \in {0, 4} }

TransformCall(op, args, repos) ==
  [NewReq(op, args) EXCEPT !.tmp = Some([repos |-> repos])]

InitTransform ==
  /\ nodeEnv = "production"
  /\ config = DefaultConfig
  /\ storeFaulty = FALSE
  /\ store = <<>>
  /\ req \in
       { [s \in Slots |-> TransformCall("sortRepositoriesByStars", [repos |-> l], l)] :
           l \in StarredLists }
         \cup
       { [s \in Slots |-> TransformCall("calculateLanguageStats", [repos |-> l], l)] :
           l \in LanguageLists }
         \cup
       { [s \in Slots |-> TransformCall("limitRepositories", [repos |-> l, limit |-> n], l)] :
           l \in StarredLists, n \in LimitValues }
         \cup
       { [s \in Slots |-> NewReq("transformToRepositoryDtoWithCommitData",
                                 [repo |-> r, commitData |-> c])] :
           r \in DatedRepos, c \in CommitInputs }

NextTransform ==
  \E s \in Slots :
    \/ sortRepositoriesByStars_Apply(s)
    \/ limitRepositories_Apply(s)
    \/ calculateLanguageStats_Apply(s)
    \/ transformToRepositoryDtoWithCommitData_Apply(s)

SpecTransform == InitTransform /\ [][NextTransform]_vars

(***************************************************************************)
(* SpecSpellings: the reads of one user and one repository, each named in  *)
(* several spellings that the validators accept                            *)
(***************************************************************************)
SpelledUsernames == { UserA, <<"@">> \o UserA \o <<" ">>, <<" ">> \o UserA }

SpelledRepos ==
  { <<u, r>> : u \in SpelledUsernames,
               r \in { RepoR1, RepoR1 \o DotGit, <<" ">> \o RepoR1 \o <<" ">> } }

InitSpellings == InitWith({"production"}, {DefaultConfig}, FALSE)

NextSpellings ==
  \/ GetUserStats(SpelledUsernames, {Undefined})
  \/ GetRepository(SpelledRepos)
  \/ GetRepositoryReadme(SpelledRepos)
  \/ GetUserRepositories(SpelledUsernames, ReadReposOptions)
  \/ ExpireEntry

SpecSpellings == InitSpellings /\ [][NextSpellings]_vars

(***************************************************************************)
(* SpecSearch: searchRepositories with queries that differ in case and     *)
(* surrounding blanks, and every combination of page, perPage and sort     *)
(***************************************************************************)
SearchQueries == { <<"q">>, <<" ", "Q">>, <<" ">> }

SearchOptionsAll ==
  { [page |-> pg, perPage |-> pp, sort |-> so] :
      pg \in {Undefined} \cup (1..MaxPage), pp \in {Undefined, 2}, so \in {"", "updated"} }

InitSearch == InitWith({"production"}, {DefaultConfig}, FALSE)

NextSearch ==
  \/ SearchRepositories(SearchQueries, SearchOptionsAll)
  \/ ExpireEntry

SpecSearch == InitSearch /\ [][NextSearch]_vars

(***************************************************************************)
(* SpecRace: two getUserStats requests at a time.  Every await of a request *)
(* is a step of its own, so the steps of the two requests interleave in    *)
(* every order; no entry expires meanwhile.                                *)
(***************************************************************************)
Racers == {1, 2}

RaceLimits == { Undefined, 1 }

InitRace ==
  /\ nodeEnv = "production"
  /\ config = DefaultConfig
  /\ storeFaulty = FALSE
  /\ store = <<>>
  /\ req = [s \in Racers |-> IdleReq]

NextRace ==
  \E s \in Racers :
    \/ \E l \in RaceLimits : getUserStats_Call(s, UserA, l)
    \/ getUserStats_CacheGet(s)
    \/ getUserStats_FetchUser(s)
    \/ getUserStats_FetchRepos(s)
    \/ getUserStats_CacheSet(s)

SpecRace == InitRace /\ [][NextRace]_vars

(***************************************************************************)
(* SpecOvertake: invalidateUserCache next to reads of the same user.  Three *)
(* requests, each made once: an early read, whose upstream calls are all   *)
(* answered before the invalidation has returned; the invalidation; and a  *)
(* late read, which starts after the invalidation has returned.  The steps *)
(* of the early read and of the invalidation interleave in every order.    *)
(***************************************************************************)
EarlyRead == "early"
Invalidation == "invalidation"
LateRead == "late"

PlainListing == [sortBy |-> "", limit |-> Undefined, includeCommits |-> FALSE]

InvalidationReturned == req[Invalidation].pc = "done"

InitOvertake ==
  /\ nodeEnv = "production"
  /\ config = DefaultConfig
  /\ storeFaulty = FALSE
  /\ store = <<>>
  /\ req = [s \in {EarlyRead, Invalidation, LateRead} |-> IdleReq]

\* the steps of a read in slot s that do not call upstream
ReadSteps(s) ==
  \/ getUserStats_CacheGet(s)
  \/ getUserStats_CacheSet(s)
  \/ getUserRepositories_CacheGet(s)
  \/ getUserRepositories_CacheSet(s)

\* the upstream calls of a read in slot s
FetchSteps(s) ==
  \/ getUserStats_FetchUser(s)
  \/ getUserStats_FetchRepos(s)
  \/ getUserRepositories_Fetch(s)

\* a read of user a begins in slot s
ReadBegins(s) ==
  /\ req[s].pc = "idle"
  /\ \/ getUserStats_Call(s, UserA, Undefined)
     \/ getUserRepositories_Call(s, UserA, PlainListing)

NextOvertake ==
  \/ ReadBegins(EarlyRead)
  \/ ReadSteps(EarlyRead)
  \/ ~InvalidationReturned /\ FetchSteps(EarlyRead)
  \/ req[Invalidation].pc = "idle" /\ invalidateUserCache_Call(Invalidation, UserA)
  \/ invalidateUserCache_Delete(Invalidation)
  \/ InvalidationReturned /\ ReadBegins(LateRead)
  \/ ReadSteps(LateRead)
  \/ FetchSteps(LateRead)

SpecOvertake == InitOvertake /\ [][NextOvertake]_vars

(***************************************************************************)
(* SpecInput: every orchestrator operation that takes a username, a        *)
(* repository or a query, called with valid and with invalid input, over a *)
(* reliable backing store                                                  *)
(***************************************************************************)
InitInput == InitWith({"production"}, {DefaultConfig}, FALSE)

NextInput ==
  \/ GetUserStats(FaultUsernames, {Undefined})
  \/ GetRepository(RepoInputs)
  \/ GetRepositoryReadme(FaultRepos)
  \/ GetUserRepositories(FaultUsernames, ReadReposOptions)
  \/ SearchRepositories(BlankAndPlainQueries,
                        {[page |-> Undefined, perPage |-> Undefined, sort |-> ""]})
  \/ InvalidateUserCache(FaultUsernames)
  \/ WarmUserCache(FaultUsernames)

SpecInput == InitInput /\ [][NextInput]_vars

(***************************************************************************)
(* SpecLookups: batchGetLatestCommits with the lookups of a batch settling *)
(* one by one, in every order, over lists shorter and longer than a batch  *)
(***************************************************************************)
InitLookups == InitWith({"production"}, {DefaultConfig}, FALSE)

NextLookups ==
  \E s \in Slots :
    \/ \E ps \in PairLists : batchGetLatestCommits_Call(s, ps)
    \/ batchGetLatestCommits_Launch(s)
    \/ batchGetLatestCommits_Settle(s, MaxFailures)

SpecLookups == InitLookups /\ [][NextLookups]_vars

(***************************************************************************)
(* SpecPages: getRandomRepository under configurations of                  *)
(* RANDOM_REPO_MAX_PAGES from 0 to beyond the upper limit of 100 pages     *)
(***************************************************************************)
PageLimits == { 0, 1, 2, 33, 150 }

PageConfigs ==
  { [maxRepositories |-> 12, cacheTimeout |-> 300000, randomRepoMaxPages |-> n] :
      n \in PageLimits }

PageOptions ==
  { [minStars |-> None, maxStars |-> None, language |-> lc[1], country |-> lc[2]] :
      lc \in LanguageAndCountry }

InitPages == InitWith({"production"}, PageConfigs, FALSE)

NextPages == GetRandomRepository(PageOptions)

SpecPages == InitPages /\ [][NextPages]_vars

(***************************************************************************)
(* SpecCommits: getUserRepositories, with and without commits, for an      *)
(* account whose listing holds repositories without full_name and without  *)
(* owner object                                                            *)
(***************************************************************************)
InitCommits == InitWith({"production"}, {DefaultConfig}, FALSE)

NextCommits ==
  \/ GetUserRepositories({UserA, UserP}, ReposOptions)
  \/ ExpireEntry

SpecCommits == InitCommits /\ [][NextCommits]_vars

(***************************************************************************)
(* Properties                                                              *)
(***************************************************************************)
Done(s) == req[s].pc = "done"

\* the request in slot s performs its cache lookup in this step
Looks(s, op) ==
  /\ req[s].op = op /\ req[s].pc = "cacheGet"
  /\ req'[s].pc # "cacheGet"

\* the live entries of a kind written by operation op for identity id
EntriesBy(op, kind, id) ==
  { k \in DOMAIN store : store[k].by = [op |-> op, kind |-> kind, id |-> id] }

\* the live entries of a kind that hold data of user u
EntriesOfUser(kind, u) ==
  { k \in DOMAIN store : store[k].by.kind = kind /\ store[k].by.id.user = u }

\* C1: once a getUserStats(u, L) miss has filled the cache, a later
\* getUserStats(u, L) that looks the entry up while it is still live (not
\* expired, not deleted) returns cached=true with the stored profile and
\* topRepositories, and makes no upstream call.
C1_SecondCallIsServedFromCache ==
  [][\A s \in Slots :
       \A k \in EntriesBy("getUserStats", "user_stats", req[s].id) :
         Looks(s, "getUserStats") =>
           /\ req'[s].pc = "done"
           /\ req'[s].result.ok
           /\ req'[s].result.value.cached = TRUE
           /\ req'[s].result.value.data = store[k].value
           /\ req'[s].calls = {}]_vars

C1_Witness ==
  \E s \in Slots :
    /\ Done(s) /\ req[s].op = "getUserStats" /\ req[s].hit
    /\ req[s].got[1].by.op = "getUserStats"
    /\ req[s].result.value.cached = TRUE
    /\ Len(req[s].result.value.data.topRepositories) = MaxLimit

\* C7: when invalidateUserCache(u) has completed, the cache holds no
\* user-stats entry (whatever its limit) and no user-repositories entry of u.
C7_InvalidateRemovesUserEntries ==
  \A s \in Slots :
    (Done(s) /\ req[s].op = "invalidateUserCache" /\ req[s].dels > 0) =>
      /\ EntriesOfUser("user_stats", req[s].id.user) = {}
      /\ EntriesOfUser("user_repos", req[s].id.user) = {}

\* C8: while the entries written by a successful warmUserCache(u) are live, a
\* getUserStats(u) with the default limit is served from the cache:
\* cached=true and no upstream call.
C8_WarmedStatsAreServed ==
  [][\A s \in Slots :
       ( /\ Looks(s, "getUserStats")
         /\ req[s].args.limit = Undefined
         /\ \E k \in DOMAIN store :
              /\ store[k].by.op = "warmUserCache" /\ store[k].by.kind = "user_stats"
              /\ store[k].by.id.user = req[s].id.user ) =>
           /\ req'[s].pc = "done"
           /\ req'[s].result.ok
           /\ req'[s].result.value.cached = TRUE
           /\ req'[s].calls = {}]_vars

\* C9: a getUserStats answer never comes from an entry filled for another
\* user or another effective limit, and its topRepositories has
\* min(effective limit, number of fetched repositories) entries.
C9_LimitsDoNotShareEntries ==
  \A s \in Slots :
    (Done(s) /\ req[s].op = "getUserStats" /\ req[s].result.ok) =>
      /\ req[s].hit => ( /\ req[s].got[1].by.id.user = req[s].id.user
                         /\ req[s].got[1].by.id.limit = req[s].id.limit )
      /\ Len(req[s].result.value.data.topRepositories) =
           Min(req[s].id.limit, Len(UpstreamRepos[req[s].id.user]))

C9_Witness ==
  \E s \in Slots :
    /\ Done(s) /\ req[s].op = "getUserStats" /\ req[s].hit
    /\ req[s].id.limit = MaxLimit
    /\ \E k \in DOMAIN store :
         /\ store[k].by.kind = "user_stats" /\ store[k].by.id.user = req[s].id.user
         /\ store[k].by.id.limit # MaxLimit

\* the answer of getUserRepositories for a raw list, options and commit map
ExpectedRepositories(repos, options, commitMap) ==
  LET sorted == CASE options.sortBy = "stars" -> StableSortDesc(repos, [i \in DOMAIN repos |-> StarsOf(repos[i])])
                  [] options.sortBy = "updated" -> StableSortDesc(repos, [i \in DOMAIN repos |-> UpdatedOf(repos[i])])
                  [] options.sortBy = "created" -> StableSortDesc(repos, [i \in DOMAIN repos |-> CreatedOf(repos[i])])
                  [] OTHER -> repos
      limited == IF options.limit = Undefined \/ options.limit = 0 THEN sorted
                 ELSE SubSeq(sorted, 1, Min(Max(options.limit, 0), Len(sorted)))
  IN  IF options.includeCommits THEN transformRepositoriesToDtos(limited, commitMap[1])
      ELSE RepositoryDtos(limited)

\* C10: while an entry filled by getUserRepositories(u, any options) is live,
\* a getUserRepositories(u, options') finds it whatever options' is, makes no
\* list-repositories upstream call and returns options' applied to the
\* cached raw list; the key is built from the username alone.
C10_OneEntryServesAllOptions ==
  /\ [][\A s \in Slots :
          \A k \in EntriesBy("getUserRepositories", "user_repos", req[s].id) :
            Looks(s, "getUserRepositories") =>
              /\ req'[s].hit
              /\ req'[s].got = Some(store[k])]_vars
  /\ [](\A s \in Slots :
          (Done(s) /\ req[s].op = "getUserRepositories" /\ req[s].hit) =>
            /\ "getUserRepositories" \notin req[s].calls
            /\ req[s].sets = 0
            /\ req[s].key = UserReposPrefix \o req[s].id.user
            /\ req[s].result.ok
            /\ req[s].result.value.data =
                 ExpectedRepositories(req[s].got[1].value, req[s].args.options,
                                      req[s].tmp))

C10_Witness ==
  \E s \in Slots :
    /\ Done(s) /\ req[s].op = "getUserRepositories" /\ req[s].hit
    /\ req[s].got[1].by.op = "getUserRepositories"
    /\ req[s].args.options.sortBy = "updated"
    /\ req[s].args.options.includeCommits
    /\ \E i \in DOMAIN req[s].result.value.data :
         req[s].result.value.data[i].lastCommitDate = 12

(***************************************************************************)
(* Properties of the read operations                                       *)
(***************************************************************************)
ReadOps == {"getUserStats", "getRepository", "getRepositoryReadme",
            "getUserRepositories", "searchRepositories"}

\* C2: when the cache lookup of getUserStats, getRepository or
\* getRepositoryReadme returns an entry, the operation returns that entry's
\* value (getUserStats marks it cached=true) with no upstream call and no
\* cache write.
C2_HitReturnsEntry ==
  \A s \in Slots :
    ( /\ req[s].op \in {"getUserStats", "getRepository", "getRepositoryReadme"}
      /\ req[s].pc # "cacheGet" /\ req[s].hit ) =>
        /\ Done(s)
        /\ req[s].result.ok
        /\ req[s].result.value.data = req[s].got[1].value
        /\ req[s].op = "getUserStats" => req[s].result.value.cached = TRUE
        /\ req[s].calls = {}
        /\ req[s].sets = 0

C2_Witness ==
  \E s \in Slots :
    /\ Done(s) /\ req[s].op = "getRepositoryReadme" /\ req[s].hit
    /\ req[s].result.value.data = req[s].got[1].value

\* what the request returns when every lookup misses: fetched from the
\* upstream and transformed
AlwaysMissSearch(id) ==
  SearchResult(WorldSearch(id.query, id.sort, SearchPerPage(id.perPage), id.page).data,
               id.page, id.perPage)

AlwaysMiss(r) ==
  CASE r.op = "getUserStats" ->
         transformToUserSummaryDto(
           WorldGetUser(r.id.user).data,
           RepositoryDtos(limitRepositories(
                    sortRepositoriesByStars(
                      WorldListForUser(r.id.user, DefaultReposPerPage, 1).data),
                    r.id.limit)))
    [] r.op = "getRepository" ->
         transformToRepositoryDto(WorldGetRepo(r.id.owner, r.id.repo).data)
    [] r.op = "getRepositoryReadme" ->
         transformToReadmeDto(WorldGetReadme(r.id.owner, r.id.repo).data,
                              r.id.owner, r.id.repo)
    [] r.op = "getUserRepositories" ->
         ExpectedRepositories(WorldListForUser(r.id.user, DefaultReposPerPage, 1).data,
                              r.args.options, r.tmp)
    [] r.op = "searchRepositories" -> AlwaysMissSearch(r.id)

\* C3 as claimed: every successful response of a read operation carries the
\* value an always-missing cache would give.
C3_CacheIsTransparent ==
  \A s \in Slots :
    (Done(s) /\ req[s].op \in ReadOps /\ req[s].result.ok) =>
      req[s].result.value.data = AlwaysMiss(req[s])

\* C3 amended: the value is the always-miss value for getUserStats,
\* getRepository, getRepositoryReadme and getUserRepositories, and for a
\* searchRepositories miss; a searchRepositories hit returns the always-miss
\* value of the request that filled the entry, which asked for the same
\* normalized query and page but possibly another sort or perPage.
C3_CacheIsTransparentButSearch ==
  \A s \in Slots :
    (Done(s) /\ req[s].op \in ReadOps /\ req[s].result.ok) =>
      IF req[s].op = "searchRepositories" /\ req[s].hit
        THEN LET filler == req[s].got[1].by.id
             IN  /\ req[s].result.value.data = AlwaysMissSearch(filler)
                 /\ filler.page = req[s].id.page
                 /\ Trim(ToLowerCase(filler.query)) = Trim(ToLowerCase(req[s].id.query))
                 /\ (filler.sort = req[s].id.sort /\ filler.perPage = req[s].id.perPage)
                      => req[s].result.value.data = AlwaysMiss(req[s])
        ELSE req[s].result.value.data = AlwaysMiss(req[s])

C3_Witness ==
  \E s \in Slots :
    /\ Done(s) /\ req[s].op = "searchRepositories" /\ req[s].hit
    /\ req[s].got[1].by.id.perPage # req[s].id.perPage
    /\ req[s].result.value.data # AlwaysMiss(req[s])

\* the contexts the upstream client attaches to the failures of an operation
ContextsOf(r) ==
  CASE r.op = "getUserStats" ->
         {GetUserContext(r.id.user), GetUserRepositoriesContext(r.id.user)}
    [] r.op = "getUserRepositories" -> {GetUserRepositoriesContext(r.id.user)}
    [] r.op = "getRepository" -> {GetRepositoryContext(r.id.owner, r.id.repo)}
    [] r.op = "getRepositoryReadme" -> {GetReadmeContext(r.id.owner, r.id.repo)}
    [] r.op = "searchRepositories" -> {SearchContext(r.id.query)}

\* C4: when an upstream call fails during the cache-miss fetch of a read
\* operation, the request throws the classified error (404: GitHubNotFoundError,
\* for getUser with the context "getUser for <username>"), has written
\* nothing to the cache, and the step in which it fails leaves the cache as
\* it was.
C4_UpstreamFailurePropagates ==
  /\ [](\A s \in Slots :
          (Done(s) /\ req[s].op \in ReadOps /\ req[s].upErr # None) =>
            /\ ~req[s].result.ok
            /\ req[s].sets = 0
            /\ req[s].result.context \in ContextsOf(req[s])
            /\ req[s].upErr[1].status = 404 =>
                 /\ req[s].result.kind = "GitHubNotFoundError"
                 /\ req[s].result.status = 404
            /\ (req[s].upErr[1].status = 404 /\ req[s].calls = {"getUser"}) =>
                 req[s].result.context = <<"getUser for ">> \o req[s].id.user
            /\ (req[s].upErr[1].status = 403 /\ req[s].upErr[1].remaining = "0") =>
                 req[s].result.kind = "GitHubRateLimitError"
            /\ req[s].upErr[1].status \notin {401, 403, 404, 422} =>
                 req[s].result.kind = "GitHubApiError")
  /\ [][\A s \in Slots :
          (req[s].pc # "done" /\ req'[s].pc = "done" /\ req'[s].upErr # None)
            => store' = store]_vars

C4_Witness ==
  \E s \in Slots :
    /\ Done(s) /\ req[s].op = "getUserStats"
    /\ req[s].upErr = Some(NotFound)
    /\ req[s].id.user = UserC
    /\ req[s].result.kind = "GitHubNotFoundError"
    /\ req[s].result.context = <<"getUser for ", "c">>
    /\ DOMAIN store # {}

\* C5: when the backing store throws, a lookup yields a miss and the request
\* goes on to fetch; a write or a delete leaves the store as it was and the
\* request completes; a finished request that met a store error has failed
\* only if an upstream call failed, and if it was not served from the cache
\* it returns the always-miss response (getUserStats with cached=false).
C5_StoreErrorsNeverFailRequests ==
  /\ [][\A s \in Slots :
          req'[s].storeErrs > req[s].storeErrs =>
            /\ req[s].pc = "cacheGet" =>
                 /\ req'[s].got = None /\ ~req'[s].hit
                 /\ req'[s].pc # "done"
                 /\ store' = store
            /\ req[s].pc \in {"cacheSet", "delete"} =>
                 /\ req'[s].pc = "done" => req'[s].result.ok
                 /\ (req'[s].storeErrs - req[s].storeErrs =
                       (req'[s].sets - req[s].sets) + (req'[s].dels - req[s].dels))
                      => store' = store]_vars
  /\ [](\A s \in Slots :
          (Done(s) /\ req[s].storeErrs > 0) =>
            /\ req[s].result.ok \/ req[s].upErr # None
            /\ (req[s].op \in ReadOps /\ req[s].result.ok /\ ~req[s].hit) =>
                 /\ req[s].result.value.data = AlwaysMiss(req[s])
                 /\ req[s].op = "getUserStats" => req[s].result.value.cached = FALSE)

C5_Witness ==
  \E s \in Slots :
    /\ Done(s) /\ req[s].op = "getUserStats"
    /\ req[s].storeErrs = 2 /\ req[s].gets = 1 /\ req[s].sets = 1
    /\ buildKey(req[s].key) \in DOMAIN store
    /\ req[s].result.ok /\ req[s].result.value.cached = FALSE

\* an empty or whitespace-only name
BlankName(x) == \A i \in 1..Len(x) : x[i] \in Whitespace

\* a username that holds a character no username may hold, begins or ends
\* with a hyphen, or begins with two @
MalformedUsername(x) ==
  /\ x # <<>>
  /\ \/ \E i \in 1..Len(x) : x[i] \notin Alnum \cup Whitespace \cup {"-", "@"}
     \/ x[1] = "-"
     \/ x[Len(x)] = "-"
     \/ Len(x) >= 2 /\ x[1] = "@" /\ x[2] = "@"

\* a repository name that holds a character no repository name may hold
MalformedRepositoryName(x) ==
  \E i \in 1..Len(x) : x[i] \notin Alnum \cup Whitespace \cup {".", "_", "-"}

InvalidArguments(r) ==
  CASE r.op \in {"getUserStats", "getUserRepositories"} ->
         BlankName(r.args.username) \/ MalformedUsername(r.args.username)
    [] r.op \in {"getRepository", "getRepositoryReadme"} ->
         \/ BlankName(r.args.owner) \/ MalformedUsername(r.args.owner)
         \/ BlankName(r.args.repo) \/ MalformedRepositoryName(r.args.repo)
    [] OTHER -> FALSE

\* C6: getUserStats, getUserRepositories, getRepository and
\* getRepositoryReadme called with an empty, whitespace-only or malformed
\* username, owner or repository name have failed with GitHubValidationError
\* as soon as the call is made, with no cache lookup, no cache write and no
\* upstream call.
C6_InvalidInputStopsAtValidation ==
  \A s \in Slots :
    InvalidArguments(req[s]) =>
      /\ Done(s)
      /\ ~req[s].result.ok
      /\ req[s].result.kind = "GitHubValidationError"
      /\ req[s].gets = 0
      /\ req[s].sets = 0
      /\ req[s].calls = {}

C6_Witness ==
  \E s \in Slots :
    /\ Done(s) /\ req[s].op = "getRepositoryReadme"
    /\ req[s].args.repo = <<"r", "/", "1">>
    /\ req[s].result.kind = "GitHubValidationError"
    /\ DOMAIN store # {}

(***************************************************************************)
(* Properties of searchRepositories                                        *)
(***************************************************************************)
NormalizedQuery(q) == Trim(ToLowerCase(q))

\* the live entries filled by a search for the same normalized query and page
SearchEntriesFor(id) ==
  { k \in DOMAIN store :
      /\ store[k].by.op = "searchRepositories"
      /\ NormalizedQuery(store[k].by.id.query) = NormalizedQuery(id.query)
      /\ store[k].by.id.page = id.page }

\* C11: while an entry filled by a searchRepositories request is live, a
\* request with the same query after lower-casing and trimming and the same
\* page, whatever its sort and perPage, returns the stored result of the
\* filling request without any upstream call.
C11_SearchesShareQueryAndPage ==
  [][\A s \in Slots :
       Looks(s, "searchRepositories") =>
         \A k \in SearchEntriesFor(req[s].id) :
           /\ req'[s].pc = "done"
           /\ req'[s].hit
           /\ req'[s].result.ok
           /\ req'[s].result.value.data = store[k].value
           /\ req'[s].result.value.data = AlwaysMissSearch(store[k].by.id)
           /\ req'[s].calls = {}]_vars

C11_Witness ==
  \E s \in Slots :
    /\ Done(s) /\ req[s].op = "searchRepositories" /\ req[s].hit
    /\ req[s].got[1].by.id.query # req[s].id.query
    /\ req[s].got[1].by.id.sort # req[s].id.sort
    /\ req[s].got[1].by.id.perPage # req[s].id.perPage
    /\ req[s].calls = {}

\* the request in slot s is a getRandomRepository call past validation
Random(s) == req[s].op = "getRandomRepository" /\ req[s].tmp # None

\* the DTOs of the repositories in repos
DtosOf(repos) == { transformToRepositoryDto(repos[i]) : i \in DOMAIN repos }

\* C12: a getRandomRepository request issues at most 10 searches; the loop
\* is left as soon as a searched page has a candidate after filtering, no
\* further search follows, and the request returns a repository of that page
C12_RetryLoopStopsAtFirstCandidate ==
  [][\A s \in Slots :
       /\ req'[s].op = "getRandomRepository" /\ req'[s].tmp # None =>
            /\ req'[s].tmp[1].searches <= maxTries
            /\ req'[s].pc = "search" => req'[s].tmp[1].filteredRepos = <<>>
       /\ Random(s) /\ req[s].pc \in {"select", "languages"}
            /\ req[s].tmp[1].filteredRepos # <<>> =>
            /\ req'[s].pc \in {"languages", "done"}
            /\ req'[s].tmp[1].searches = req[s].tmp[1].searches
            /\ req'[s].tmp[1].items = req[s].tmp[1].items
            /\ req'[s].pc = "done" =>
                 /\ req'[s].result.ok
                 /\ req'[s].result.value.data.dto \in DtosOf(req[s].tmp[1].items)]_vars

\* nine empty pages, then a page with a candidate: the tenth search answers
C12_Witness ==
  \E s \in Slots :
    /\ Done(s) /\ Random(s) /\ req[s].result.ok
    /\ req[s].tmp[1].searches = maxTries
    /\ req[s].tmp[1].attempt = maxTries - 1
    /\ req[s].tmp[1].lastError

NoRepositoriesMessages ==
  { "No repositories found matching the criteria",
    "No repositories found for the specified country." }

\* C13: when all 10 attempts of getRandomRepository gave no candidate (the
\* page was empty, or the country filter left nothing), no repository is
\* selected and the call throws a "No repositories found" error
C13_ExhaustedAttemptsFail ==
  \A s \in Slots :
    Random(s) /\ req[s].tmp[1].attempt = maxTries =>
      /\ req[s].tmp[1].filteredRepos = <<>>
      /\ req[s].tmp[1].selected = None
      /\ req[s].pc \in {"select", "done"}
      /\ Done(s) =>
           /\ ~req[s].result.ok
           /\ req[s].result.kind = "Error"
           /\ req[s].result.message \in NoRepositoriesMessages

\* ten pages with items, each emptied by the country filter
C13_Witness ==
  \E s \in Slots :
    /\ Done(s) /\ Random(s) /\ req[s].tmp[1].attempt = maxTries
    /\ req[s].tmp[1].searches = maxTries
    /\ req[s].tmp[1].items # <<>>
    /\ ~req[s].tmp[1].lastError
    /\ ~req[s].result.ok

\* a star bound that is given and is negative or no integer
BadStarBound(x) ==
  IF x = None THEN FALSE ELSE x[1] < 0 \/ (x[1] \div x[2]) * x[2] # x[1]

\* both bounds given and minStars > maxStars
InvertedStarRange(lo, hi) ==
  IF lo = None \/ hi = None THEN FALSE ELSE lo[1] * hi[2] > hi[1] * lo[2]

\* C14: a getRandomRepository call with minStars > maxStars, or with a
\* negative or non-integer bound, throws GitHubValidationError and has issued
\* no upstream call
C14_InvalidStarRangeStopsAtValidation ==
  \A s \in Slots :
    req[s].op = "getRandomRepository" =>
      LET o == req[s].args.options
      IN  BadStarBound(o.minStars) \/ BadStarBound(o.maxStars)
            \/ InvertedStarRange(o.minStars, o.maxStars) =>
            /\ Done(s)
            /\ ~req[s].result.ok
            /\ req[s].result.kind = "GitHubValidationError"
            /\ req[s].calls = {}
            /\ req[s].tmp = None

\* two well-formed bounds in the wrong order
C14_Witness ==
  \E s \in Slots :
    /\ Done(s) /\ req[s].op = "getRandomRepository"
    /\ ~BadStarBound(req[s].args.options.minStars)
    /\ ~BadStarBound(req[s].args.options.maxStars)
    /\ InvertedStarRange(req[s].args.options.minStars, req[s].args.options.maxStars)
    /\ req[s].result.kind = "GitHubValidationError"

\* alias occurs in location, letter case aside, with exactly one word
\* character on the two sides of either end
OnWordBoundaries(alias, location) ==
  \E i \in 1..Len(location) : \E j \in i..Len(location) :
    LET inside(p) == p \in i..j
        isWord(p) == IF p \in 1..Len(location)
                       THEN location[p] \in Alnum \cup {"_"} ELSE FALSE
    IN  /\ ToLowerCase(SubSeq(location, i, j)) = ToLowerCase(alias)
        /\ isWord(i - 1) = ~isWord(i)
        /\ isWord(j) = ~isWord(j + 1)

\* the request in slot s returned a repository of the page searched last,
\* whose owner location, fetched by the filter, matches an alias of country
ReturnedFromFilteredPage(s) ==
  LET l == req[s].tmp[1]
      aliases == AliasesOf(req[s].id.country)
  IN  \E i \in DOMAIN l.items :
        /\ l.selected = Some(l.items[i])
        /\ req[s].result.value.data.dto = transformToRepositoryDto(l.items[i])
        /\ Len(l.fetched) = Len(l.items)
        /\ l.fetched[i] # None
        /\ l.fetched[i][1] # <<>>
        /\ \E a \in DOMAIN aliases : OnWordBoundaries(aliases[a], l.fetched[i][1])

\* C15: with a country filter, the repository getRandomRepository returns is
\* of the last searched page and its owner location, as fetched by the
\* filter, holds an alias of the country on word boundaries, letter case
\* aside; owners whose lookup failed or who have no location are not
\* returned, and a request fails only by a failed search or by running
\* out of attempts, never by an owner lookup
C15_CountryFilterKeepsMatchingOwners ==
  \A s \in Slots :
    Random(s) /\ Done(s) /\ req[s].id.country # <<>> =>
        IF req[s].result.ok THEN ReturnedFromFilteredPage(s)
        ELSE \/ req[s].result.kind = "Error"
             \/ /\ req[s].upErr # None
                /\ req[s].result.context = SearchContext(req[s].tmp[1].query)

\* C16: once getRandomRepository has selected a repository, the request
\* returns that repository's DTO whatever fails afterwards: a failed owner
\* lookup leaves ownerLocation null, a failed language lookup or attachment
\* leaves the DTO without the language breakdown
C16_EnrichmentFailuresAreSwallowed ==
  \A s \in Slots :
    Random(s) /\ req[s].tmp[1].selected # None =>
      /\ req[s].pc \in {"languages", "done"}
      /\ Done(s) =>
           /\ req[s].result.ok
           /\ req[s].result.value.data.dto =
                transformToRepositoryDto(req[s].tmp[1].selected[1])
           /\ "getUser" \in req[s].tmp[1].caught =>
                req[s].result.value.data.ownerLocation = <<NullStr>>
           /\ req[s].tmp[1].caught \ {"getUser"} # {} =>
                req[s].result.value.data.languages = None

\* both lookups failed and the repository is returned all the same
C16_Witness ==
  \E s \in Slots :
    /\ Done(s) /\ Random(s) /\ req[s].result.ok
    /\ req[s].tmp[1].selected # None
    /\ {"getUser", "getRepositoryLanguages"} \subseteq req[s].tmp[1].caught

\* C17: every getAllUserRepositories call ends, returning or throwing,
\* whatever upstream answers, even when every page it lists is full
C17_GetAllUserRepositoriesTerminates ==
  \A s \in Slots :
    (req[s].op = "getAllUserRepositories" /\ req[s].pc = "fetch") ~> Done(s)

\* the commit upstream holds for a pair, None when it holds none
HeldCommit(pair) ==
  IF <<pair.owner, pair.repo>> \in DOMAIN UpstreamCommits
    THEN IF UpstreamCommits[<<pair.owner, pair.repo>>] = <<>> THEN None
         ELSE Some(UpstreamCommits[<<pair.owner, pair.repo>>][1])
    ELSE None

\* C18: a batchGetLatestCommits call over distinct pairs always resolves,
\* and its map has an entry for every pair of the list: null when the lookup
\* failed or the repository has no commit, else the latest commit
C18_BatchResolvesWithEveryPair ==
  \A s \in Slots :
    req[s].op = "batchGetLatestCommits" /\ Done(s) =>
      /\ req[s].result.ok
      /\ \A i \in DOMAIN req[s].args.repositories :
           LET pair == req[s].args.repositories[i]
               key == pair.owner \o <<"/">> \o pair.repo
               results == req[s].result.value.data
           IN  /\ key \in DOMAIN results
               /\ results[key] = IF i \in req[s].tmp[1].failed THEN None
                                 ELSE HeldCommit(pair)

\* a list longer than a batch, with a failed lookup in either batch
C18_Witness ==
  \E s \in Slots :
    /\ req[s].op = "batchGetLatestCommits" /\ Done(s)
    /\ Len(req[s].args.repositories) > batchSize
    /\ \E i \in 1..batchSize : i \in req[s].tmp[1].failed
    /\ \E i \in (batchSize + 1)..Len(req[s].args.repositories) :
         i \in req[s].tmp[1].failed
    /\ Cardinality(DOMAIN req[s].result.value.data) = Len(req[s].args.repositories)

\* the p-th largest star count among repos
NthMostStars(repos, p) ==
  CHOOSE v \in { repos[i].stargazers_count : i \in DOMAIN repos } :
    /\ Cardinality({ i \in DOMAIN repos : repos[i].stargazers_count > v }) < p
    /\ Cardinality({ i \in DOMAIN repos : repos[i].stargazers_count >= v }) >= p

\* C19: on a miss, topRepositories of getUserStats are min(L, n) repositories
\* of the user with the highest star counts of the full list of n
\* repositories, in non-increasing star order, L being the effective limit
C19_TopRepositoriesOfFullList ==
  \A s \in Slots :
    req[s].op = "getUserStats" /\ Done(s) /\ req[s].result.ok /\ ~req[s].hit =>
      LET full == UpstreamRepos[req[s].id.user]
          top == req[s].result.value.data.topRepositories
      IN  /\ Len(top) = Min(req[s].id.limit, Len(full))
          /\ \A p \in DOMAIN top :
               /\ top[p].stars = NthMostStars(full, p)
               /\ \E i \in DOMAIN full : top[p] = transformToRepositoryDto(full[i])

\* both keys of the pair in slot s were built
BuiltKeys(s) ==
  /\ req[s].op = "generateKeys" /\ Done(s)
  /\ req[s].result.value.first.ok /\ req[s].result.value.second.ok

ColonFree(q) == \A i \in DOMAIN q.ids : \A j \in DOMAIN q.ids[i] : q.ids[i][j] # ":"

\* the logical query of a key query: a search query without letter case
\* and outer blanks, a limit only when positive, page 1 when none is given
LogicalQuery(q) ==
  CASE q.kind = "userStats" ->
         [q EXCEPT !.num = IF q.num # Undefined /\ q.num > 0 THEN q.num ELSE Undefined]
    [] q.kind = "search" ->
         [q EXCEPT !.ids = <<Trim(ToLowerCase(q.ids[1]))>>,
                   !.num = IF q.num = Undefined THEN 1 ELSE q.num]
    [] OTHER -> q

\* C20 as stated: equal key queries give equal keys, and key queries that
\* differ in kind, identifiers, limit or page give different keys
C20_KeysAreCollisionFree ==
  \A s \in Slots :
    BuiltKeys(s) =>
      (req[s].args.first = req[s].args.second
         <=> req[s].result.value.first = req[s].result.value.second)

\* C20: equal key queries give equal keys; key queries of different kinds
\* never share a key; key queries whose identifiers hold no colon share a
\* key exactly when they are the same logical query
C20_KeysAreCollisionFreeForLogicalQueries ==
  \A s \in Slots :
    BuiltKeys(s) =>
      LET a == req[s].args.first
          b == req[s].args.second
          sameKey == req[s].result.value.first = req[s].result.value.second
      IN  /\ a = b => sameKey
          /\ a.kind # b.kind => ~sameKey
          /\ ColonFree(a) /\ ColonFree(b) =>
               (sameKey <=> LogicalQuery(a) = LogicalQuery(b))

\* one user with and without a limit: two keys
C20_Witness ==
  \E s \in Slots :
    /\ BuiltKeys(s)
    /\ req[s].args.first = [kind |-> "userStats", ids |-> << <<"a">> >>, num |-> 1]
    /\ req[s].args.second = [kind |-> "userStats", ids |-> << <<"a">> >>, num |-> Undefined]
    /\ req[s].result.value.first # req[s].result.value.second

(***************************************************************************)
(* Properties of the key builders' validation                              *)
(***************************************************************************)
\* a key query one of whose identifiers is empty or whitespace only
HasBlankIdentifier(q) == \E i \in DOMAIN q.ids : BlankName(q.ids[i])

\* no cache-store call and no upstream call was made by the request
NoCallsMade(r) ==
  r.gets = 0 /\ r.sets = 0 /\ r.dels = 0 /\ r.calls = {}

\* C21: a key builder called with an empty or whitespace-only username,
\* owner, repo or query throws an Error instead of returning a key, and a
\* request that hands such an identifier to a key builder has failed with
\* that Error without any cache-store call and without any upstream call.
C21_BlankIdentifierThrows ==
  \A s \in Slots :
    /\ req[s].op = "generateKeys" /\ Done(s) =>
         /\ HasBlankIdentifier(req[s].args.first) =>
              /\ ~req[s].result.value.first.ok
              /\ req[s].result.value.first.kind = "Error"
         /\ HasBlankIdentifier(req[s].args.second) =>
              /\ ~req[s].result.value.second.ok
              /\ req[s].result.value.second.kind = "Error"
         /\ NoCallsMade(req[s])
    /\ req[s].op = "searchRepositories" /\ BlankName(req[s].args.query) =>
         /\ Done(s)
         /\ ~req[s].result.ok
         /\ req[s].result.kind = "Error"
         /\ NoCallsMade(req[s])

\* a search for a whitespace-only query has thrown while the store holds
\* an entry it never looked at
C21_Witness ==
  \E s \in Slots :
    /\ Done(s) /\ req[s].op = "searchRepositories"
    /\ req[s].args.query = <<" ", " ">>
    /\ req[s].result = KeyError("query")
    /\ NoCallsMade(req[s])
    /\ DOMAIN store # {}

(***************************************************************************)
(* Properties of the cache service's get and set                           *)
(***************************************************************************)
\* the entries a set(key, ...) of the cache service wrote and the store
\* still holds
SetEntries(key) ==
  { k \in DOMAIN store : store[k].by.op = "set" /\ store[k].by.id.key = key }

\* C22: a get(k) that the backing store answered, made while the store
\* holds what a set(k, v) with a non-null v wrote (the set succeeded, and
\* the entry was neither deleted nor dropped for its age since), returns v
\* as the caller of set gave it.
C22_GetReturnsWhatSetStored ==
  \A s \in Slots :
    Done(s) /\ req[s].op = "get" /\ req[s].storeErrs = 0 =>
      \A k \in SetEntries(req[s].args.key) :
        store[k].by.id.value # Null =>
          req[s].result = Ok(store[k].by.id.value)

\* the value 0 comes back from the store in production, where keys are
\* prefixed
C22_Witness ==
  \E s \in Slots :
    /\ Done(s) /\ req[s].op = "get" /\ req[s].args.key = <<"k">>
    /\ nodeEnv = "production"
    /\ buildKey(<<"k">>) \in SetEntries(<<"k">>)
    /\ req[s].result = Ok(0)

\* C23: an entry written by set without a ttl has the configured
\* cacheTimeout as its TTL, one written with an explicit positive ttl has
\* exactly that ttl, and an entry written by searchRepositories has a TTL
\* of 300000 ms.
C23_SetUsesConfiguredDefaultTtl ==
  \A k \in DOMAIN store :
    /\ store[k].by.op = "set" =>
         /\ store[k].by.id.ttl = Undefined => store[k].ttl = config.cacheTimeout
         /\ store[k].by.id.ttl # Undefined /\ store[k].by.id.ttl > 0 =>
              store[k].ttl = store[k].by.id.ttl
    /\ store[k].by.op = "searchRepositories" => store[k].ttl = 300000

(***************************************************************************)
(* Properties of the error classification                                  *)
(***************************************************************************)
\* messages of an upstream failure that speak of rate limiting
IndicatesRateLimiting(message) ==
  message \in { "rate limit", "Rate Limited", "API rate limit exceeded for user",
                "You have exceeded a secondary rate limit" }

\* the request in slot s is an upstream failure that handleApiError has
\* classified
Classified(s) ==
  req[s].op = "handleApiError" /\ req[s].pc \in {"thrown", "done"}

C25_UnclassifiedFailuresAnswer500 ==
  \A s \in Slots :
    /\ req[s].op = "handleApiError" /\ Done(s)
    /\ req[s].args.error.status \notin {401, 403, 404, 422}
    => req[s].out = Some([statusCode |-> 500])

(***************************************************************************)
(* Properties of the transform service's functions                         *)
(***************************************************************************)
\* the call of op in slot s has returned
Returned(s, op) == req[s].op = op /\ Done(s) /\ req[s].result.ok

\* the star count of a repository, 0 when it has none
StarsOrZero(repo) ==
  IF repo.stargazers_count \in {Undefined, Null} THEN 0 ELSE repo.stargazers_count

\* the position of a repository in a list of repositories with distinct names
PositionIn(list, repo) == CHOOSE i \in DOMAIN list : list[i].name = repo.name

\* C26: sortRepositoriesByStars returns a permutation of its input with
\* non-increasing star counts, a missing count counting as 0; repositories
\* with equal star counts keep their relative order; the input list is as
\* it was.
C26_SortByStarsIsStablePermutation ==
  \A s \in Slots :
    Returned(s, "sortRepositoriesByStars") =>
      LET input == req[s].args.repos
          sorted == req[s].out[1]
      IN  /\ Len(sorted) = Len(input)
          /\ \A j \in DOMAIN input : \E i \in DOMAIN sorted : sorted[i] = input[j]
          /\ \A i \in DOMAIN sorted : \A j \in DOMAIN sorted :
               i < j =>
                 /\ StarsOrZero(sorted[i]) >= StarsOrZero(sorted[j])
                 /\ StarsOrZero(sorted[i]) = StarsOrZero(sorted[j]) =>
                      PositionIn(input, sorted[i]) < PositionIn(input, sorted[j])
          /\ req[s].tmp[1].repos = input

\* a repository without a star count stays ahead of a later one with 0
\* stars, and both follow a starred one that came last
C26_Witness ==
  \E s \in Slots :
    /\ Returned(s, "sortRepositoriesByStars")
    /\ Len(req[s].args.repos) = 3
    /\ req[s].args.repos[1].stargazers_count = Undefined
    /\ req[s].args.repos[2].stargazers_count = 0
    /\ req[s].args.repos[3].stargazers_count = 1
    /\ req[s].out[1] = <<req[s].args.repos[3], req[s].args.repos[1], req[s].args.repos[2]>>

\* C27: limitRepositories(list, N) returns the empty list for N <= 0, the
\* first N elements for 0 < N < length and the whole list for N >= length,
\* and never fails.
C27_LimitTakesFirstN ==
  \A s \in Slots :
    req[s].op = "limitRepositories" /\ Done(s) =>
      LET list == req[s].args.repos
          N == req[s].args.limit
          limited == req[s].out[1]
      IN  /\ req[s].result.ok
          /\ N <= 0 => limited = <<>>
          /\ 0 < N /\ N < Len(list) =>
               Len(limited) = N /\ \A i \in 1..N : limited[i] = list[i]
          /\ N >= Len(list) => limited = list

\* a negative limit on a list of two gives the empty list
C27_Witness ==
  \E s \in Slots :
    /\ Returned(s, "limitRepositories")
    /\ Len(req[s].args.repos) = 2
    /\ req[s].args.limit < 0
    /\ req[s].out[1] = <<>>

\* the repositories of a list that have a primary language
WithLanguage(list) == { i \in DOMAIN list : list[i].language \notin {"", NullStr} }

\* p is count / total * 100 rounded to the nearest integer, halves upwards
IsRoundedPercentage(p, count, total) ==
  /\ (2 * p - 1) * total <= 200 * count
  /\ 200 * count < (2 * p + 1) * total

RECURSIVE SumOfPercentages(_)
SumOfPercentages(stats) ==
  IF stats = <<>> THEN 0 ELSE Head(stats).percentage + SumOfPercentages(Tail(stats))

\* C28: calculateLanguageStats has one entry for each language that some
\* repository has, none for a repository without a language; an entry's
\* count is the number of repositories with that language and its
\* percentage is round(count / total * 100), total being the number of
\* repositories that have a language; the percentages sum to 100 give or
\* take the number of languages, and the result is empty when no repository
\* has a language.
C28_LanguageStatsCountLanguagesOnly ==
  \A s \in Slots :
    Returned(s, "calculateLanguageStats") =>
      LET list == req[s].args.repos
          stats == req[s].out[1]
          total == Cardinality(WithLanguage(list))
          sum == SumOfPercentages(stats)
      IN  /\ { stats[i].name : i \in DOMAIN stats } =
               { list[j].language : j \in WithLanguage(list) }
          /\ Len(stats) = Cardinality({ list[j].language : j \in WithLanguage(list) })
          /\ \A i \in DOMAIN stats :
               /\ stats[i].count =
                    Cardinality({ j \in WithLanguage(list) :
                                    list[j].language = stats[i].name })
               /\ IsRoundedPercentage(stats[i].percentage, stats[i].count, total)
          /\ total = 0 => stats = <<>>
          /\ total > 0 => sum - 100 <= Len(stats) /\ 100 - sum <= Len(stats)

\* three languages on three repositories: the percentages sum to 99
C28_Witness ==
  \E s \in Slots :
    /\ Returned(s, "calculateLanguageStats")
    /\ Len(req[s].args.repos) = 3
    /\ Len(req[s].out[1]) = 3
    /\ SumOfPercentages(req[s].out[1]) = 99

\* the first date of the list that is there (a date is 0 when empty), Null
\* when none is
RECURSIVE FirstNonEmpty(_)
FirstNonEmpty(dates) ==
  IF dates = <<>> THEN Null
  ELSE IF Head(dates) \notin {0, Null, Undefined} THEN Head(dates)
  ELSE FirstNonEmpty(Tail(dates))

\* C29: the lastCommitDate of a transformed repository is the first
\* non-empty of the commit's committer date, the commit's author date, the
\* repository's pushed_at, updated_at and created_at, and null when all are
\* empty.
C29_LastCommitDateIsFirstNonEmpty ==
  \A s \in Slots :
    Returned(s, "transformToRepositoryDtoWithCommitData") =>
      LET repo == req[s].args.repo
          commitData == req[s].args.commitData
          commitDates == IF commitData = None THEN <<>>
                         ELSE <<commitData[1].committer_date, commitData[1].author_date>>
      IN  req[s].out[1].lastCommitDate =
            FirstNonEmpty(commitDates \o <<repo.pushed_at, repo.updated_at, repo.created_at>>)

\* a commit without dates on a repository that was never pushed: the date
\* is updated_at
C29_Witness ==
  \E s \in Slots :
    /\ Returned(s, "transformToRepositoryDtoWithCommitData")
    /\ req[s].args.commitData # None
    /\ req[s].args.commitData[1].committer_date = 0
    /\ req[s].args.commitData[1].author_date = 0
    /\ req[s].args.repo.pushed_at = 0
    /\ req[s].args.repo.updated_at = 2
    /\ req[s].out[1].lastCommitDate = 2

(***************************************************************************)
(* Properties of identifier normalization                                  *)
(***************************************************************************)
\* the identifier each spelling stands for
Canonical ==
  (UserA :> UserA) @@ (<<"@", "a", " ">> :> UserA) @@ (<<" ", "a">> :> UserA) @@
  (RepoR1 :> RepoR1) @@ (<<"r", "1", ".", "g", "i", "t">> :> RepoR1) @@
  (<<" ", "r", "1", " ">> :> RepoR1)

\* the identifiers a request made in some spelling is about
CanonicalId(r) ==
  CASE r.op = "getUserStats" ->
         [user |-> Canonical[r.args.username], limit |-> EffectiveLimit(r.args.limit)]
    [] r.op = "getUserRepositories" -> [user |-> Canonical[r.args.username]]
    [] OTHER -> [owner |-> Canonical[r.args.owner], repo |-> Canonical[r.args.repo]]

\* the cache key of those identifiers
CanonicalKey(r) ==
  CASE r.op = "getUserStats" ->
         UserStatsPrefix \o Canonical[r.args.username] \o MaxSuffix
           \o NatToStr(EffectiveLimit(r.args.limit))
    [] r.op = "getUserRepositories" -> UserReposPrefix \o Canonical[r.args.username]
    [] r.op = "getRepository" ->
         RepoPrefix \o Canonical[r.args.owner] \o <<":">> \o Canonical[r.args.repo]
    [] r.op = "getRepositoryReadme" ->
         ReadmePrefix \o Canonical[r.args.owner] \o <<":">> \o Canonical[r.args.repo]

SpelledOps == {"getUserStats", "getUserRepositories", "getRepository",
               "getRepositoryReadme"}

\* C30: a read made with a username in any accepted spelling ('@a ', ' a')
\* or a repository name in any accepted spelling ('r1.git', ' r1 ') works
\* on the normalized identifier: its cache key is the key of the normalized
\* identifier, its lookup hits exactly when the store holds an entry under
\* that key, whichever spelling wrote it, and its upstream calls are made
\* with the normalized identifier, so that it never fails on validation or
\* on a resource the upstream does not know.
C30_SpellingsShareOneEntry ==
  [][\A s \in Slots :
       req'[s].op \in SpelledOps =>
         /\ req'[s].pc # "done" \/ req'[s].result.ok
              \/ (req'[s].upErr # None /\ req'[s].upErr[1] \in TransientFaults)
         /\ req'[s].key = CanonicalKey(req'[s])
         /\ req'[s].id = CanonicalId(req'[s])
         /\ req[s].pc = "cacheGet" /\ req'[s].pc # "cacheGet" =>
              (req'[s].hit <=> buildKey(CanonicalKey(req[s])) \in DOMAIN store)
    ]_vars

\* a request for 'r1.git' of '@a ' was served the one entry under repo:a:r1
C30_Witness ==
  \E s \in Slots :
    /\ Done(s) /\ req[s].op = "getRepository"
    /\ req[s].args = [owner |-> <<"@", "a", " ">>, repo |-> <<"r", "1", ".", "g", "i", "t">>]
    /\ req[s].hit /\ req[s].result.ok /\ req[s].calls = {} /\ req[s].sets = 0
    /\ { k \in DOMAIN store : store[k].by.op = "getRepository" } =
         { buildKey(RepoPrefix \o UserA \o <<":">> \o RepoR1) }

(***************************************************************************)
(* Properties of concurrent requests                                       *)
(***************************************************************************)
\* the summary getUserStats builds for the identifiers of request r
FreshUserStats(r) ==
  BuildUserStats(UpstreamUsers[r.id.user], Slice(UpstreamRepos[r.id.user],
                                                 ListPerPage(Undefined),
                                                 DefaultPage(Undefined)),
                 r.id.limit)

\* request s went to upstream after a miss and returned what it built
ServedFresh(s) ==
  /\ Done(s) /\ req[s].op = "getUserStats" /\ req[s].result.ok
  /\ ~req[s].hit /\ req[s].sets = 1

\* C31: when two getUserStats requests for the same key run at the same
\* time, each request that missed returns the summary built from upstream
\* with cached = false, each request that hit returns the stored summary
\* with cached = true, and once a request has stored, the entry under the
\* key is there and holds exactly the value one of the requests stored,
\* whatever the order of their steps.
C31_RacingMissesBothStoreAndLastWriteWins ==
  \A s \in Racers :
    /\ ServedFresh(s) =>
         /\ req[s].result.value = [data |-> FreshUserStats(req[s]), cached |-> FALSE]
         /\ buildKey(req[s].key) \in DOMAIN store
         /\ store[buildKey(req[s].key)].value \in
              { req[t].out[1] : t \in { t \in Racers : req[t].key = req[s].key
                                                         /\ req[t].out # None } }
         /\ store[buildKey(req[s].key)].by = Tag(req[s], "user_stats")
    /\ (Done(s) /\ req[s].op = "getUserStats" /\ req[s].hit) =>
         /\ req[s].calls = {} /\ req[s].sets = 0
         /\ req[s].result.value = [data |-> FreshUserStats(req[s]), cached |-> TRUE]

\* both requests missed, both fetched and both stored under the same key
C31_Witness ==
  /\ ServedFresh(1) /\ ServedFresh(2)
  /\ req[1].key = req[2].key
  /\ req[1].calls = {"getUser", "getUserRepositories"}
  /\ req[2].calls = {"getUser", "getUserRepositories"}
  /\ buildKey(req[1].key) \in DOMAIN store

\* C32: once invalidateUserCache(u) has returned, a read of u that starts
\* afterwards is not served from the cache: whatever the store holds for u
\* at that time was fetched from upstream by a request whose upstream calls
\* were answered before the invalidation returned.
C32_NoStaleEntryAfterInvalidation ==
  (Done(LateRead) /\ InvalidationReturned) => ~req[LateRead].hit

(***************************************************************************)
(* Properties of the order of steps within a read                          *)
(***************************************************************************)
\* how far a request is: lookup, upstream fetch, store, commit lookups, end
Stage(pc) ==
  CASE pc = "cacheGet" -> 1
    [] pc \in {"fetch", "fetchUser"} -> 2
    [] pc = "fetchRepos" -> 3
    [] pc = "cacheSet" -> 4
    [] pc = "commits" -> 5
    [] pc = "done" -> 6
    [] OTHER -> 0

\* a request begins in slot s: its input is validated and its key built
\* before anything else happens
Begins(s) ==
  /\ Free(s)
  /\ req'[s].op \in ReadOps
  /\ req'[s].gets = 0 /\ req'[s].sets = 0 /\ req'[s].calls = {}
  /\ \/ req'[s].pc = "cacheGet" /\ req'[s].result = NoResult
     \/ /\ req'[s].pc = "done" /\ ~req'[s].result.ok
        /\ req'[s].result.kind \in {"GitHubValidationError", "Error"}

\* the request in slot s takes its next step
Proceeds(s) ==
  LET r == req[s]
      n == req'[s]
  IN  /\ ~Free(s)
      /\ n.op = r.op /\ n.args = r.args /\ n.key = r.key
      /\ Stage(n.pc) > Stage(r.pc)
      /\ n.gets = (IF r.pc = "cacheGet" THEN r.gets + 1 ELSE r.gets)
      /\ n.sets = (IF r.pc = "cacheSet" THEN r.sets + 1 ELSE r.sets)
      /\ n.calls # r.calls => r.pc \in {"fetch", "fetchUser", "fetchRepos", "commits"}
      /\ n.calls # {} => n.gets = 1
      /\ n.sets <= 1
      /\ n.sets = 1 => (r.pc = "cacheSet" \/ r.sets = 1) /\ ~n.hit /\ n.upErr = None
                         /\ n.calls # {} /\ n.out # None
      /\ n.pc = "done" <=> n.result # NoResult
      /\ n.upErr # None => n.pc = "done" /\ ~n.result.ok

C34_FailedSearchIsNotRetried ==
  \A s \in Slots :
    (Random(s) /\ req[s].tmp # None) =>
      LET l == req[s].tmp[1]
      IN  /\ req[s].upErr # None =>
               /\ Done(s)
               /\ req[s].result = handleApiError(req[s].upErr[1], SearchContext(l.query))
               /\ l.searches = l.attempt + 1
               /\ l.selected = None
          /\ (req[s].pc = "search" /\ l.attempt > 0) =>
               /\ req[s].upErr = None
               /\ l.searches = l.attempt
               /\ \/ l.items = <<>> /\ l.lastError
                  \/ l.items # <<>> /\ req[s].id.country # <<>> /\ l.filteredRepos = <<>>

\* two empty pages, then a search that was rate limited: the call ended
\* with the rate-limit error after its third search
C34_Witness ==
  \E s \in Slots :
    /\ Done(s) /\ Random(s) /\ req[s].tmp # None
    /\ req[s].upErr = Some(HttpError(403, "rate limit", "0"))
    /\ req[s].result.kind = "GitHubRateLimitError"
    /\ req[s].tmp[1].searches = 3 /\ req[s].tmp[1].attempt = 2

(***************************************************************************)
(* Properties of the reporting of invalid input                            *)
(***************************************************************************)
\* the input of request r is invalid: a username, owner or repository name
\* that its validator rejects, or a query that is empty or blank
InvalidInput(r) ==
  CASE r.op \in {"getUserStats", "getUserRepositories", "invalidateUserCache",
                 "warmUserCache"} -> ~validateUsername(r.args.username).ok
    [] r.op \in {"getRepository", "getRepositoryReadme"} ->
         ~validateOwner(r.args.owner).ok \/ ~validateRepositoryName(r.args.repo).ok
    [] r.op = "searchRepositories" -> Trim(r.args.query) = <<>>
    [] OTHER -> FALSE

\* C35: every orchestrator operation called with invalid input, among them
\* invalidateUserCache and warmUserCache with an invalid username and
\* searchRepositories with an empty query, ends by throwing a validation
\* failure (GitHubValidationError) and has made no upstream call.
C35_InvalidInputIsReportedAsValidationFailure ==
  \A s \in Slots :
    (Done(s) /\ InvalidInput(req[s])) =>
      /\ ~req[s].result.ok
      /\ req[s].result.kind = "GitHubValidationError"
      /\ req[s].calls = {}

(***************************************************************************)
(* Properties of the batches of commit lookups                             *)
(***************************************************************************)
\* the positions of the list whose lookup has settled
SettledLookups(r) ==
  { p \in DOMAIN r.args.repositories :
      FullName(r.args.repositories[p].owner, r.args.repositories[p].repo)
        \in DOMAIN r.tmp[1].results }

\* the number of the batch position p belongs to, counted from 0
BatchOf(p) == (p - 1) \div batchSize

\* C36: batchGetLatestCommits works through its list in consecutive batches
\* of at most 10: at any time at most 10 lookups are pending, they all
\* belong to one batch, every lookup of an earlier batch has settled
\* (successfully or not), and no lookup of a later batch has started.
C36_LookupsRunInBatchesOfTen ==
  \A s \in Slots :
    (req[s].op = "batchGetLatestCommits" /\ req[s].pc = "settle") =>
      LET r == req[s]
          pending == r.tmp[1].pending
          started == pending \cup SettledLookups(r)
      IN  /\ pending # {}
          /\ Cardinality(pending) <= 10
          /\ pending \cap SettledLookups(r) = {}
          /\ \A p \in pending, q \in DOMAIN r.args.repositories :
               /\ BatchOf(q) < BatchOf(p) => q \in SettledLookups(r)
               /\ BatchOf(q) > BatchOf(p) => q \notin started
               /\ BatchOf(q) = BatchOf(p) => q \in started

\* the second batch is pending after the ten lookups of the first settled,
\* one of them unsuccessfully
C36_Witness ==
  \E s \in Slots :
    /\ req[s].op = "batchGetLatestCommits" /\ req[s].pc = "settle"
    /\ Len(req[s].args.repositories) = batchSize + 2
    /\ req[s].tmp[1].pending = {batchSize + 1, batchSize + 2}
    /\ Cardinality(SettledLookups(req[s])) = batchSize
    /\ req[s].tmp[1].failed # {}

\* C37: every search of getRandomRepository is the search of a page p with
\* 1 <= p <= min(configured randomRepoMaxPages, 100), whatever the
\* configured value and the random draw.
C37_SearchPagesWithinConfiguredRange ==
  [][\A s \in Slots :
       (req[s].op = "getRandomRepository" /\ req[s].pc = "search"
          /\ req'[s] # req[s]) =>
         \E p \in 1..Min(config.randomRepoMaxPages, 100) :
           getRandomRepository_SearchPage(s, p)]_vars

(***************************************************************************)
(* Properties of the keys of the cache service                             *)
(***************************************************************************)
\* C38: get, set and delete of the cache service address the same
\* backing-store key for the same logical key in every environment: after
\* a delete(k) that the store carried out, the store holds nothing under
\* the key that set(k, v) writes and get(k) reads, so that get(k) is a
\* miss, and every entry under the key of another logical key is left as
\* it was.
C38_DeleteAddressesTheKeyOfSet ==
  [][\A s \in Slots, key \in CacheKeys :
       (cacheService_delete(s, key) /\ req'[s].storeErrs = 0) =>
         /\ ReadWriteKey(nodeEnv, key) \notin DOMAIN store'
         /\ CacheGet(store', key, FALSE) = None
         /\ \A k \in DOMAIN store \ {ReadWriteKey(nodeEnv, key)} :
              k \in DOMAIN store' /\ store'[k] = store[k]]_vars

(***************************************************************************)
(* Properties of the commit dates of listed repositories                   *)
(***************************************************************************)
\* C39: in getUserRepositories with includeCommits, every repository for
\* which batchGetLatestCommits fetched a commit is looked up in the commit
\* map under the key the commit was stored under, and gets the date of
\* that commit as its lastCommitDate; also a repository without full_name
\* or without owner object.
C39_FetchedCommitDatesTheRepository ==
  [][\A s \in Slots :
       (req[s].op = "getUserRepositories" /\ req[s].pc = "commits"
          /\ req'[s].pc = "done") =>
         LET sortedRepos == req[s].tmp[1]
             commitMap == req'[s].tmp[1]
             data == req'[s].result.value.data
         IN  \A i \in DOMAIN sortedRepos :
               LET id == extractOwnerAndRepo(sortedRepos[i])
                   key == FullName(id[1].owner, id[1].name)
               IN  (id # None /\ key \in DOMAIN commitMap /\ commitMap[key] # None) =>
                     /\ getRepositoryKey(sortedRepos[i]) = key
                     /\ data[i].lastCommitDate =
                          transformCommitToLastCommit(commitMap[key][1]).date]_vars

====
